---- MODULE Spec2Model ----
(***************************************************************************)
(* A model of the Slice language server (zeroc-ice/vscode-slice, server/). *)
(*                                                                         *)
(* The repository holds several generations of the same subsystem:         *)
(*   - main.rs / shared_state.rs: the Backend whose handlers share one     *)
(*     CompilationState behind a mutex (specification SpecBackend);        *)
(*   - session.rs / configuration_set.rs / slice_config.rs /               *)
(*     diagnostic_ext.rs: the Session that owns a list of configuration    *)
(*     sets (specification Spec);                                          *)
(*   - process_diagnostics as a pure function (specification SpecDiag).    *)
(*                                                                         *)
(* Conventions.  Option<T> is a sequence of length 0 (None) or 1 (Some).   *)
(* A path is a sequence of segments, absolute when its first segment is    *)
(* "/" (or a device prefix, which no file URL can hold).  A String holding *)
(* a path is the same sequence, <<>> when empty.                           *)
(***************************************************************************)
EXTENDS Integers, Sequences, FiniteSets, TLC

VARIABLES
    \* ---- the world outside the server
    broken,              \* files whose current content does not compile
    \* ---- the editor (tower_lsp::Client)
    published,           \* publishDiagnostics notifications, in order
    popups,              \* custom/showNotification messages, in order
    editor,              \* diagnostics the editor currently shows per file
    nevents,             \* number of operations started so far
    \* ---- Session (session.rs)
    configuration_sets,  \* Mutex<Vec<ConfigurationSet>>
    root_path,           \* RwLock<Option<PathBuf>>
    built_in_slice_path, \* RwLock<String>
    session_ready,       \* update_from_initialize_params has returned
    last_parsed,         \* Option: the list parsed by the latest update
    returned,            \* diagnostics returned by the latest compilation
    panicked,            \* a handler hit expect/unwrap/unreachable
    session_pc,          \* where the handler that holds the session stands
    handles,             \* compile_everything: per set, what its thread returned
    finished,            \* compile_everything: the sets in the order their threads ended
    \* ---- Backend (main.rs)
    workspace_uri,       \* Arc<Mutex<Option<Url>>>
    sources_uri,         \* Arc<Mutex<Option<Url>>>
    reference_uris,      \* Arc<Mutex<Option<Vec<Url>>>>
    shared_state,        \* Arc<Mutex<SharedState>>
    backend_ready,       \* initialize has returned
    initialized_started, \* the initialized notification was dispatched
    pc,                  \* where each concurrently running handler stands
    locals,              \* the local variables of each running handler
    \* ---- process_diagnostics as a function of its arguments
    diagnostics_in,      \* the diagnostics argument
    publish_map_in,      \* the publish_map argument, as passed
    processed,           \* Option: the map and the list it left
    \* ---- path resolution as a function of its arguments
    resolve_in,          \* root_uri, paths, include_built_in_path, built_in_slice_path
    resolved_paths,      \* Option: what SliceConfig::resolve_paths returned
    resolved_references, \* Option: what SliceConfig::resolve_reference_paths returned
    \* ---- descriptor parsing as a function of its argument
    descriptor_in,       \* one entry of the "configurations" array
    parsed_descriptor,   \* Option: the set ConfigurationSet::from_json made of it
    parsed_config,       \* Option: what utils.rs parse_configuration_sets read from it
    \* ---- position queries as functions of their arguments
    query_in,            \* the document, the position, a span, the traversal order
    matched,             \* Option: whether the position's location matched the span
    hover_out,           \* Option: how Backend::hover ended
    jump_out,            \* Option: how Backend::goto_definition ended
    lsp_out,             \* Option: what LspVisitor found
    converted,           \* Option: the span as the range of a diagnostic and of a note
    \* ---- the locks of the Session
    locks,               \* per lock: who holds it and who waits for it
    tasks,               \* per handler task: its handler and the next lock operation
    \* ---- the SliceConfig structs under their setters
    reference_config,    \* config.rs: SliceConfig
    paths_config         \* slice_config.rs: SliceConfig

vars == <<broken, published, popups, editor, nevents, configuration_sets,
          root_path, built_in_slice_path, session_ready, last_parsed,
          returned, panicked, session_pc, handles, finished, workspace_uri, sources_uri, reference_uris,
          shared_state, backend_ready, initialized_started, pc, locals,
          diagnostics_in, publish_map_in, processed,
          resolve_in, resolved_paths, resolved_references,
          descriptor_in, parsed_descriptor, parsed_config,
          query_in, matched, hover_out, jump_out, lsp_out, converted,
          locks, tasks, reference_config, paths_config>>

world_vars == <<broken>>
client_vars == <<published, popups, editor>>
thread_vars == <<handles, finished>>
session_vars == <<configuration_sets, root_path, built_in_slice_path,
                  session_ready, last_parsed, returned, panicked, session_pc, thread_vars>>
resolve_vars == <<resolve_in, resolved_paths, resolved_references>>
parse_vars == <<descriptor_in, parsed_descriptor, parsed_config>>
query_vars == <<query_in, matched, hover_out, jump_out, lsp_out, converted>>
lock_vars == <<locks, tasks>>
config_vars == <<reference_config, paths_config>>
function_vars == <<parse_vars, query_vars, lock_vars, config_vars>>
diag_vars == <<diagnostics_in, publish_map_in, processed, resolve_vars, function_vars>>
backend_vars == <<workspace_uri, sources_uri, reference_uris, shared_state,
                  backend_ready, initialized_started, pc, locals, diag_vars>>

-----------------------------------------------------------------------------
(* Bounds *)

MaxEvents == 4
MaxRequests == 3
MaxDiagnostics == 3
MaxPaths == 3
MaxLine == 5
MaxCharacter == 5
NumHandlers == 2
NumTasks == 3

-----------------------------------------------------------------------------
(* Option, sequences *)

Some(x) == <<x>>

IsSome(o) == o # <<>>

Unwrap(o) == o[1]

Range(s) == {s[i] : i \in 1..Len(s)}

RECURSIVE Concat(_)
Concat(ss) == IF ss = <<>> THEN <<>> ELSE Head(ss) \o Concat(Tail(ss))

-----------------------------------------------------------------------------
(* Paths and URLs *)

\* the prefix of a device path (\\.\pipe): absolute, and not a file URL
DevicePrefix == "//./"

IsAbsolute(p) == Len(p) > 0 /\ p[1] \in {"/", DevicePrefix}

\* PathBuf::join: an absolute argument replaces the base
Join(base, p) == IF IsAbsolute(p) THEN p ELSE base \o p

IsPrefix(d, f) == Len(d) <= Len(f) /\ SubSeq(f, 1, Len(d)) = d

\* Url::from_file_path(..).ok(): only an absolute path that starts at a
\* root directory has a file URL
Url_from_file_path(p) == IF IsAbsolute(p) /\ p[1] = "/" THEN Some([scheme |-> "file", path |-> p]) ELSE <<>>

\* Url::to_file_path(..).ok()
Url_to_file_path(u) == IF u.scheme = "file" THEN Some(u.path) ELSE <<>>

convert_slice_url_to_uri(url) == Url_from_file_path(url)

-----------------------------------------------------------------------------
(* The file system and the external compiler (slicec) *)

Root == <<"/", "ws">>
Builtin == <<"/", "builtin">>
Cwd == <<"/">>

Src == <<"src">>
Refs == <<"refs">>
Nope == <<"nope">>

FileA == <<"/", "ws", "src", "a.slice">>
FileB == <<"/", "ws", "refs", "b.slice">>
FileW == <<"/", "builtin", "w.slice">>

FileOrder == <<FileA, FileB, FileW>>
AllFiles == Range(FileOrder)

\* the key under which the compiler files f when it was found through search path p
KeyFor(p, f) == p \o SubSeq(f, Len(Join(Cwd, p)) + 1, Len(f))

FoundUnder(p) == {f \in AllFiles : IsPrefix(Join(Cwd, p), f)}

CompiledKeys(paths) == {KeyFor(paths[i], f) : <<i, f>> \in {x \in (1..Len(paths)) \X AllFiles : x[2] \in FoundUnder(paths[x[1]])}}

CompiledFiles(paths) == UNION {FoundUnder(paths[i]) : i \in 1..Len(paths)}

SpanIn(k) == Some([file |-> k, start |-> <<1, 1>>, end |-> <<1, 4>>])

\* a search path that does not exist is reported without a span
IoDiagnostics(paths) ==
    Concat([i \in 1..Len(paths) |->
        IF FoundUnder(paths[i]) = {} THEN <<[span |-> <<>>, message |-> "io"]>> ELSE <<>>])

\* FileA defines the type FileB uses; a broken FileA reports a syntax error
FileDiagnostics(paths, isBroken, f, k) ==
    IF f = FileA /\ FileA \in isBroken THEN <<[span |-> SpanIn(k), message |-> "syntax"]>>
    ELSE IF f = FileB /\ ~(FileA \in CompiledFiles(paths) /\ FileA \notin isBroken)
         THEN <<[span |-> SpanIn(k), message |-> "undefined"]>>
    ELSE <<>>

KeysOf(paths, f) == {KeyFor(paths[i], f) : i \in {j \in 1..Len(paths) : f \in FoundUnder(paths[j])}}

\* slicec::compile_from_options: deterministic in the search paths and the files
compile_from_options(options, isBroken) ==
    LET paths == options.references
        perFile == [n \in 1..Len(FileOrder) |->
            LET f == FileOrder[n] IN
            IF f \in CompiledFiles(paths)
            THEN FileDiagnostics(paths, isBroken, f, CHOOSE k \in KeysOf(paths, f) : TRUE)
            ELSE <<>>]
    IN [ast |-> <<paths, isBroken>>,
        files |-> CompiledKeys(paths),
        diagnostics |-> IoDiagnostics(paths) \o Concat(perFile)]

\* DiagnosticsExt::into_updated drops allowed lints; every diagnostic of this
\* model is an error, which it keeps
into_updated(diagnostics) == diagnostics

-----------------------------------------------------------------------------
(* JSON values of the editor's settings *)

JNull == [t |-> "null", v |-> <<>>]
JBool(b) == [t |-> "bool", v |-> <<b>>]
JNumber == [t |-> "number", v |-> <<>>]
JString(s) == [t |-> "string", v |-> s]
JArray(a) == [t |-> "array", v |-> a]

\* Value::as_array, Value::as_bool, Value::as_str
as_array(j) == IF j.t = "array" THEN Some(j.v) ELSE <<>>
as_bool(j) == IF j.t = "bool" THEN Some(j.v[1]) ELSE <<>>
as_str(j) == IF j.t = "string" THEN Some(j.v) ELSE <<>>

\* project descriptors the editor may send
DescRefs == [paths |-> JArray(<<JString(Refs)>>), addWellKnownTypes |-> JNull]
DescBoth == [paths |-> JArray(<<JString(Src), JNumber, JString(Refs)>>), addWellKnownTypes |-> JBool(FALSE)]
DescNope == [paths |-> JArray(<<JString(Nope)>>), addWellKnownTypes |-> JBool(FALSE)]
DescNone == [paths |-> JNull, addWellKnownTypes |-> JString(Src)]

\* values of the "configurations" key (JNull: the key is absent)
ConfigurationsInputs ==
    << JNull, JArray(<<>>), JArray(<<DescRefs>>), JArray(<<DescBoth>>),
       JArray(<<DescRefs, DescBoth>>), JArray(<<DescBoth, DescRefs>>),
       JArray(<<DescNope, DescNone>>), JString(Src) >>

\* values of builtInSlicePath in the initialization options
BuiltInInputs == << <<>>, Builtin >>

-----------------------------------------------------------------------------
(* SliceConfig and ConfigurationSet *)

\* filter_map(|v| v.as_str()) over the entries of an array
RECURSIVE filter_strings(_)
filter_strings(a) ==
    IF a = <<>> THEN <<>>
    ELSE (IF IsSome(as_str(Head(a))) THEN <<Unwrap(as_str(Head(a)))>> ELSE <<>>)
         \o filter_strings(Tail(a))

\* parse_paths; sanitize_path rewrites the separators of each string entry
\* for the platform and leaves a path of this file system as it is
parse_paths(value) ==
    IF IsSome(as_array(value.paths)) THEN filter_strings(Unwrap(as_array(value.paths))) ELSE <<>>

\* parse_include_built_in that reads a value that is no boolean as false
parse_include_built_in_strict(value) ==
    IsSome(as_bool(value.addWellKnownTypes)) /\ Unwrap(as_bool(value.addWellKnownTypes))

parse_include_built_in(value) ==
    IF IsSome(as_bool(value.addWellKnownTypes)) THEN Unwrap(as_bool(value.addWellKnownTypes)) ELSE TRUE

CompilationData_default == [ast |-> <<>>, files |-> {}]

\* ConfigurationSet::new that declares an empty list of search paths
ConfigurationSet_new_with_paths(root, built_in_path) ==
    [slice_config |-> [workspace_root_path |-> root,
                       built_in_slice_path |-> Some(built_in_path),
                       search_paths |-> Some(<<>>)],
     compilation_data |-> CompilationData_default]

\* ConfigurationSet::new
ConfigurationSet_new(root, built_in_path) ==
    [slice_config |-> [workspace_root_path |-> root,
                       built_in_slice_path |-> Some(built_in_path),
                       search_paths |-> <<>>],
     compilation_data |-> CompilationData_default]

\* ConfigurationSet::from_json
from_json(value, root, built_in_path) ==
    [slice_config |-> [workspace_root_path |-> root,
                       built_in_slice_path |-> IF parse_include_built_in(value) THEN Some(built_in_path) ELSE <<>>,
                       search_paths |-> Some(parse_paths(value))],
     compilation_data |-> CompilationData_default]

\* utils.rs parse_configuration_sets, the first map over an entry: its
\* reference directories and whether it includes the built-in types
parse_config_obj(config_obj) ==
    [directories |-> IF IsSome(as_array(config_obj.paths))
                     THEN filter_strings(Unwrap(as_array(config_obj.paths)))
                     ELSE <<>>,
     include_built_in |-> IF IsSome(as_bool(config_obj.addWellKnownTypes))
                          THEN Unwrap(as_bool(config_obj.addWellKnownTypes))
                          ELSE TRUE]

parse_configuration_sets(config_array, root, built_in_path) ==
    [i \in 1..Len(config_array) |-> from_json(config_array[i], root, built_in_path)]

\* the loop of SliceConfig::resolve_paths over the declared paths: the list
\* resolved so far, or the early return when a path has no URL
RECURSIVE resolve_each(_, _, _)
resolve_each(root, paths, acc) ==
    IF paths = <<>> THEN [aborted |-> FALSE, urls |-> acc]
    ELSE LET path_url == Url_from_file_path(Join(root, Head(paths))) IN
         IF ~IsSome(path_url) THEN [aborted |-> TRUE, urls |-> <<root>>]
         ELSE LET absolute_path == Url_to_file_path(Unwrap(path_url)) IN
              IF ~IsSome(absolute_path) THEN resolve_each(root, Tail(paths), acc)
              ELSE resolve_each(root, Tail(paths),
                       Append(acc, IF IsAbsolute(Unwrap(absolute_path))
                                   THEN Unwrap(absolute_path)
                                   ELSE Join(root, Unwrap(absolute_path))))

\* resolve_paths that returns an empty list when no declared path resolves
SliceConfig_resolve_paths_no_fallback(self, server_config) ==
    LET root_dir == Url_to_file_path(server_config.root_uri) IN
    IF ~IsSome(root_dir) THEN <<>>
    ELSE IF ~IsSome(self.paths) THEN <<Unwrap(root_dir)>>
    ELSE LET r == resolve_each(Unwrap(root_dir), Unwrap(self.paths), <<>>) IN
         IF r.aborted THEN r.urls
         ELSE r.urls \o (IF self.include_built_in_path /\ server_config.built_in_slice_path # <<>>
                         THEN <<server_config.built_in_slice_path>> ELSE <<>>)

\* SliceConfig::resolve_paths (slice_config.rs): self holds paths and
\* include_built_in_path, server_config holds root_uri and built_in_slice_path
SliceConfig_resolve_paths(self, server_config) ==
    LET root_dir == Url_to_file_path(server_config.root_uri) IN
    IF ~IsSome(root_dir) THEN <<>>
    ELSE IF ~IsSome(self.paths)
         THEN <<IF IsAbsolute(Unwrap(root_dir)) THEN Unwrap(root_dir)
                ELSE Join(Unwrap(root_dir), Unwrap(root_dir))>>
    ELSE LET r == resolve_each(Unwrap(root_dir), Unwrap(self.paths), <<>>) IN
         IF r.aborted THEN r.urls
         ELSE (IF r.urls = <<>> THEN <<Unwrap(root_dir)>> ELSE r.urls)
              \o (IF self.include_built_in_path /\ server_config.built_in_slice_path # <<>>
                  THEN <<server_config.built_in_slice_path>> ELSE <<>>)

\* SliceConfig::resolve_reference_paths (config.rs): self holds
\* built_in_slice_path, references and root_uri
resolve_reference_paths(self) ==
    LET root_dir == IF IsSome(self.root_uri) THEN Url_to_file_path(Unwrap(self.root_uri)) ELSE <<>> IN
    IF ~IsSome(root_dir) THEN <<>>
    ELSE IF ~IsSome(self.references)
         THEN <<IF IsAbsolute(Unwrap(root_dir)) THEN Unwrap(root_dir)
                ELSE Join(Unwrap(root_dir), Unwrap(root_dir))>>
    ELSE LET r == resolve_each(Unwrap(root_dir), Unwrap(self.references), <<>>) IN
         IF r.aborted THEN r.urls
         ELSE (IF r.urls = <<>> THEN <<Unwrap(root_dir)>> ELSE r.urls) \o <<self.built_in_slice_path>>

\* the server configuration a set's SliceConfig resolves against: the root
\* URI of its workspace root path, and the built-in path
ServerConfig_of(slice_config) ==
    [root_uri |-> IF IsSome(Url_from_file_path(slice_config.workspace_root_path))
                  THEN Unwrap(Url_from_file_path(slice_config.workspace_root_path))
                  ELSE [scheme |-> "untitled", path |-> slice_config.workspace_root_path],
     built_in_slice_path |-> IF IsSome(slice_config.built_in_slice_path)
                             THEN Unwrap(slice_config.built_in_slice_path) ELSE <<>>]

\* SliceConfig::resolve_paths of a configuration set's SliceConfig
resolve_paths(slice_config) ==
    SliceConfig_resolve_paths(
        [paths |-> slice_config.search_paths,
         include_built_in_path |-> IsSome(slice_config.built_in_slice_path)],
        ServerConfig_of(slice_config))

\* SliceConfig::as_slice_options
as_slice_options(slice_config) == [references |-> resolve_paths(slice_config)]

\* trigger_compilation that installs the new file table and keeps the AST
trigger_compilation_files_only(set, isBroken) ==
    LET compilation_state == compile_from_options(as_slice_options(set.slice_config), isBroken) IN
    [set |-> [set EXCEPT !.compilation_data.files = compilation_state.files],
     diagnostics |-> into_updated(compilation_state.diagnostics)]

\* trigger_compilation that keeps the AST of an earlier compilation
trigger_compilation_keeping_ast(set, isBroken) ==
    LET compilation_state == compile_from_options(as_slice_options(set.slice_config), isBroken) IN
    [set |-> [set EXCEPT !.compilation_data =
                  [ast |-> IF set.compilation_data.ast = <<>> THEN compilation_state.ast
                           ELSE set.compilation_data.ast,
                   files |-> compilation_state.files]],
     diagnostics |-> into_updated(compilation_state.diagnostics)]

\* ConfigurationSet::trigger_compilation: the set with its new compilation
\* data, and the diagnostics it returns
trigger_compilation(set, isBroken) ==
    LET compilation_state == compile_from_options(as_slice_options(set.slice_config), isBroken) IN
    [set |-> [set EXCEPT !.compilation_data =
                  [ast |-> compilation_state.ast, files |-> compilation_state.files]],
     diagnostics |-> into_updated(compilation_state.diagnostics)]

-----------------------------------------------------------------------------
(* Diagnostics: conversion, grouping, publishing *)

Position(loc) == <<loc[1] - 1, loc[2] - 1>>

\* a one-based span as a zero-based editor range
span_to_range(span) == [start |-> Position(span.start), end |-> Position(span.end)]

\* try_into_lsp_diagnostic: None (Err) for a diagnostic without a span
try_into_lsp_diagnostic(diagnostic) ==
    IF ~IsSome(diagnostic.span) THEN <<>>
    ELSE Some([range |-> span_to_range(Unwrap(diagnostic.span)),
               message |-> diagnostic.message,
               source |-> "slicec"])

\* try_into_lsp_diagnostic_related_information: None for a note without a
\* span or in a file without a URI
try_into_lsp_diagnostic_related_information(note) ==
    IF ~IsSome(note.span) THEN <<>>
    ELSE IF ~IsSome(convert_slice_url_to_uri(Unwrap(note.span).file)) THEN <<>>
    ELSE Some([location |-> [uri |-> Unwrap(convert_slice_url_to_uri(Unwrap(note.span).file)),
                             range |-> [start |-> Position(Unwrap(note.span).start),
                                        end |-> Position(Unwrap(note.span).end)]],
               message |-> note.message])

\* a push that reaches only the keys the map already has
entry_push_existing(map, uri, x) ==
    IF uri \in DOMAIN map THEN [map EXCEPT ![uri] = Append(@, x)] ELSE map

\* HashMap::entry(uri).or_default().push(x)
entry_push(map, uri, x) ==
    IF uri \in DOMAIN map THEN [map EXCEPT ![uri] = Append(@, x)] ELSE map @@ (uri :> <<x>>)

\* process_diagnostics: the publish map with the diagnostics added, and the
\* diagnostics without a span
RECURSIVE process_diagnostics(_, _)
process_diagnostics(diagnostics, publish_map) ==
    IF diagnostics = <<>> THEN [map |-> publish_map, spanless |-> <<>>]
    ELSE LET diagnostic == Head(diagnostics)
             lsp_diagnostic == try_into_lsp_diagnostic(diagnostic)
             uri == convert_slice_url_to_uri(Unwrap(diagnostic.span).file)
             map1 == IF IsSome(lsp_diagnostic) /\ IsSome(uri)
                     THEN entry_push(publish_map, Unwrap(uri), Unwrap(lsp_diagnostic))
                     ELSE publish_map
             rest == process_diagnostics(Tail(diagnostics), map1)
         IN [map |-> rest.map,
             spanless |-> (IF IsSome(lsp_diagnostic) THEN <<>> ELSE <<diagnostic>>) \o rest.spanless]

\* the URIs of the files, in one fixed order (a HashMap iterates in no
\* particular order; one publication loop is one batch)
UriOrder == [n \in 1..Len(FileOrder) |-> [scheme |-> "file", path |-> FileOrder[n]]]
AllUris == Range(UriOrder)

\* the empty publish map over the files of a file table
files_map(files) ==
    [uri \in {Unwrap(convert_slice_url_to_uri(k)) : k \in {x \in files : IsSome(convert_slice_url_to_uri(x))}} |-> <<>>]

\* Client::publish_diagnostics
publish_diagnostics(client, uri, diagnostics, op) ==
    [client EXCEPT !.published = Append(@, [uri |-> uri, diagnostics |-> diagnostics, op |-> op]),
                   !.editor = [@ EXCEPT ![uri] = diagnostics]]

\* for (uri, lsp_diagnostics) in map { client.publish_diagnostics(..) }
RECURSIVE publish_map_from(_, _, _, _)
publish_map_from(client, map, n, op) ==
    IF n > Len(UriOrder) THEN client
    ELSE publish_map_from(
             IF UriOrder[n] \in DOMAIN map
             THEN publish_diagnostics(client, UriOrder[n], map[UriOrder[n]], op)
             ELSE client,
             map, n + 1, op)

\* show_popup for each diagnostic of a list
show_popups(client, diagnostics) ==
    [client EXCEPT !.popups = @ \o [i \in 1..Len(diagnostics) |-> diagnostics[i].message]]

\* publish_diagnostics_for_set (publish_diagnostics_for_project)
publish_diagnostics_for_set(client, diagnostics, configuration_set, op) ==
    LET r == process_diagnostics(diagnostics, files_map(configuration_set.compilation_data.files))
    IN publish_map_from(show_popups(client, r.spanless), r.map, 1, op)

\* the loop of compile_and_publish_diagnostics from set n on: the sets and
\* the client after it
RECURSIVE compile_and_publish_from(_, _, _, _, _)
compile_and_publish_from(sets, client, n, isBroken, op) ==
    IF n > Len(sets) THEN [sets |-> sets, client |-> client]
    ELSE LET c == trigger_compilation(sets[n], isBroken) IN
         compile_and_publish_from(
             [sets EXCEPT ![n] = c.set],
             publish_diagnostics_for_set(client, c.diagnostics, c.set, op),
             n + 1, isBroken, op)

\* clear_diagnostics that publishes nothing
clear_diagnostics_none(client, sets, op) == client

\* clear_diagnostics: an empty list for every file the sets track
clear_diagnostics(client, sets, op) ==
    LET all_tracked_files == UNION {DOMAIN files_map(sets[i].compilation_data.files) : i \in 1..Len(sets)}
    IN publish_map_from(client, [uri \in all_tracked_files |-> <<>>], 1, op)

Client == [published |-> published, popups |-> popups, editor |-> editor]

SetClient(c) ==
    /\ published' = c.published
    /\ popups' = c.popups
    /\ editor' = c.editor

-----------------------------------------------------------------------------
(* Backend (main.rs): state and helpers *)

Handlers == 1..NumHandlers

\* CompilationState::create(), SliceOptions::default()
CompilationState_create == [ast |-> <<>>, diagnostics |-> <<>>, files |-> {}]
SliceOptions_default == [references |-> <<>>]

\* SharedState::new
SharedState_new == [compilation_state |-> CompilationState_create,
                    compilation_options |-> SliceOptions_default]

\* the local variables of a handler; replaced is no variable of the code: it
\* records the sources URI a configuration change has overwritten
NoLocals == [kind |-> "none", event |-> 0, s |-> <<>>, r |-> <<>>, uri |-> <<>>,
             current_files |-> {}, updated_state |-> CompilationState_create,
             options |-> SliceOptions_default, replaced |-> <<>>]

\* values of root_uri in InitializeParams
RootUriInputs == << <<>>, Url_from_file_path(Root) >>

\* values of slice.sourceDirectory and of slice.referenceDirectory
SourceDirectoryInputs == << JNull, JString(Src) >>
ReferenceDirectoryInputs == << JNull, JArray(<<>>), JArray(<<JString(Refs), JNumber>>), JArray(<<JString(Nope)>>) >>

\* documents the editor opens or saves
FileChangeInputs == UriOrder

\* get_sources_directory(..).ok()
get_sources_directory(workspace_root, value) ==
    IF ~IsSome(as_str(value)) THEN <<>>
    ELSE IF ~IsSome(workspace_root) THEN <<>>
    ELSE IF ~IsSome(Url_to_file_path(Unwrap(workspace_root))) THEN <<>>
    ELSE Url_from_file_path(Join(Unwrap(Url_to_file_path(Unwrap(workspace_root))), Unwrap(as_str(value))))

\* get_reference_directories(..).ok()
get_reference_directories(workspace_root, value) ==
    IF ~IsSome(as_array(value)) THEN <<>>
    ELSE IF ~IsSome(workspace_root) THEN <<>>
    ELSE IF ~IsSome(Url_to_file_path(Unwrap(workspace_root))) THEN <<>>
    ELSE LET workspace_path == Unwrap(Url_to_file_path(Unwrap(workspace_root)))
             reference_directories == filter_strings(Unwrap(as_array(value)))
             urls == [i \in 1..Len(reference_directories) |->
                         Url_from_file_path(Join(workspace_path, reference_directories[i]))]
         IN IF \E i \in 1..Len(urls) : ~IsSome(urls[i]) THEN <<>>
            ELSE Some([i \in 1..Len(urls) |-> Unwrap(urls[i])])

\* the reference paths of compile_slice_files: unresolvable ones are dropped
RECURSIVE reference_paths(_, _)
reference_paths(uris, workspace_path) ==
    IF uris = <<>> THEN <<>>
    ELSE LET path == Url_to_file_path(Head(uris)) IN
         (IF ~IsSome(path) THEN <<>>
          ELSE IF IsAbsolute(Unwrap(path)) THEN <<Unwrap(path)>>
          ELSE IF IsSome(workspace_path) THEN <<Join(Unwrap(workspace_path), Unwrap(path))>>
          ELSE <<>>)
         \o reference_paths(Tail(uris), workspace_path)

\* Backend::compile_slice_files: it holds the locks of the three URIs while
\* it reads them and compiles
compile_slice_files ==
    LET workspace_path == IF IsSome(workspace_uri) THEN Url_to_file_path(Unwrap(workspace_uri)) ELSE <<>>
        source_path == IF IsSome(sources_uri) THEN Url_to_file_path(Unwrap(sources_uri)) ELSE <<>>
        combined_paths == source_path \o
            (IF IsSome(reference_uris) THEN reference_paths(Unwrap(reference_uris), workspace_path) ELSE <<>>)
        options == [references |-> combined_paths]
    IN [state |-> compile_from_options(options, broken), options |-> options]

\* the loop of publish_diagnostics_for_all_files over the diagnostics: one
\* without a span, or whose file has no URI, is skipped
RECURSIVE group_by_file(_, _)
group_by_file(diagnostics, map) ==
    IF diagnostics = <<>> THEN map
    ELSE LET diagnostic == Head(diagnostics) IN
         IF ~IsSome(diagnostic.span) THEN group_by_file(Tail(diagnostics), map)
         ELSE LET uri == convert_slice_url_to_uri(Unwrap(diagnostic.span).file)
                  lsp_diagnostic == try_into_lsp_diagnostic(diagnostic)
              IN IF ~IsSome(uri) \/ ~IsSome(lsp_diagnostic) THEN group_by_file(Tail(diagnostics), map)
                 ELSE group_by_file(Tail(diagnostics), entry_push(map, Unwrap(uri), Unwrap(lsp_diagnostic)))

\* Backend::publish_diagnostics_for_all_files: the client after it (the
\* diagnostics of the shared state are taken out by the caller's action)
publish_diagnostics_for_all_files(client, state, op) ==
    LET diagnostics == into_updated(state.compilation_state.diagnostics)
        map == group_by_file(diagnostics, files_map(state.compilation_state.files))
    IN publish_map_from(client, map, 1, op)

\* the filter of get_diagnostics_for_uri
RECURSIVE diagnostics_of_uri(_, _)
diagnostics_of_uri(diagnostics, uri) ==
    IF diagnostics = <<>> THEN <<>>
    ELSE LET d == Head(diagnostics) IN
         (IF IsSome(d.span) /\ IsSome(Url_to_file_path(uri))
             /\ Unwrap(d.span).file = Unwrap(Url_to_file_path(uri))
          THEN try_into_lsp_diagnostic(d) ELSE <<>>)
         \o diagnostics_of_uri(Tail(diagnostics), uri)

\* Backend::get_diagnostics_for_uri
get_diagnostics_for_uri(uri, state) ==
    diagnostics_of_uri(into_updated(state.compilation_state.diagnostics), uri)

\* a take that empties the file table with the diagnostics
take_diagnostics_and_files(state) ==
    [state EXCEPT !.compilation_state.diagnostics = <<>>, !.compilation_state.files = {}]

\* std::mem::take(&mut compilation_state.diagnostics)
take_diagnostics(state) == [state EXCEPT !.compilation_state.diagnostics = <<>>]

Finish(h) ==
    /\ pc' = [pc EXCEPT ![h] = "idle"]
    /\ locals' = [locals EXCEPT ![h] = NoLocals]

Goto(h, label) == pc' = [pc EXCEPT ![h] = label]

\* a new request runs in the first free handler slot (the slots are alike)
Free(h) == pc[h] = "idle" /\ \A g \in Handlers : g < h => pc[g] # "idle"

-----------------------------------------------------------------------------
(* FindFile (utils.rs) *)

\* find_file: the first set whose file table has file_name as a key
RECURSIVE find_file(_, _)
find_file(sets, file_name) ==
    IF sets = <<>> THEN <<>>
    ELSE IF file_name \in Head(sets).compilation_data.files THEN Some(Head(sets))
    ELSE find_file(Tail(sets), file_name)

-----------------------------------------------------------------------------
(* Session (session.rs) *)

\* update_configurations that keeps the previous sets
update_configurations_merged(configurations, root, built_in) ==
    configuration_sets \o (IF configurations = <<>>
                           THEN <<ConfigurationSet_new(Unwrap(root), built_in)>>
                           ELSE configurations)

\* update_configurations without the default set
update_configurations_no_default(configurations, root, built_in) == configurations

\* Session::update_configurations: the list that replaces configuration_sets
update_configurations(configurations, root, built_in) ==
    IF configurations = <<>>
    THEN <<ConfigurationSet_new(Unwrap(root), built_in)>>
    ELSE configurations

\* the "configurations" array parsed, or the default (empty) list
parse_or_default(configurations_value, root, built_in) ==
    IF IsSome(as_array(configurations_value))
    THEN parse_configuration_sets(Unwrap(as_array(configurations_value)), root, built_in)
    ELSE <<>>

\* Session::update_from_initialize_params that forgets the root path
update_from_initialize_params_rootless(b, c) ==
    /\ ~session_ready
    /\ nevents < MaxEvents
    /\ nevents' = nevents + 1
    /\ LET built_in == BuiltInInputs[b]
           parsed == parse_or_default(ConfigurationsInputs[c], Root, built_in)
       IN /\ built_in_slice_path' = built_in
          /\ root_path' = root_path
          /\ last_parsed' = Some(parsed)
          /\ configuration_sets' = update_configurations(parsed, Some(Root), built_in)
    /\ session_ready' = TRUE
    /\ UNCHANGED <<world_vars, client_vars, returned, panicked, session_pc, thread_vars, backend_vars>>

\* Session::update_from_initialize_params; the handler panics, before it
\* writes anything, without builtInSlicePath or a root_uri that is a file path
update_from_initialize_params(b, c) ==
    /\ ~session_ready
    /\ nevents < MaxEvents
    /\ nevents' = nevents + 1
    /\ LET built_in == BuiltInInputs[b]
           parsed == parse_or_default(ConfigurationsInputs[c], Root, built_in)
       IN /\ built_in_slice_path' = built_in
          /\ root_path' = Some(Root)
          /\ last_parsed' = Some(parsed)
          /\ configuration_sets' = update_configurations(parsed, Some(Root), built_in)
    /\ session_ready' = TRUE
    /\ UNCHANGED <<world_vars, client_vars, returned, panicked, session_pc, thread_vars, backend_vars>>

\* The handlers that call into the Session run one at a time.  A
\* configuration change clears the diagnostics of the tracked files, then
\* replaces the configuration sets, then compiles and publishes.
HandlerIdle == session_ready /\ session_pc = "idle"
AfterClear == session_pc = "cleared"
AfterUpdate == session_pc = "updated"

\* clear_diagnostics over the session's sets: a configuration change begins
ClearDiagnostics ==
    /\ HandlerIdle
    /\ nevents < MaxEvents
    /\ nevents' = nevents + 1
    /\ SetClient(clear_diagnostics(Client, configuration_sets, [event |-> nevents + 1, step |-> "clear"]))
    /\ session_pc' = "cleared"
    /\ UNCHANGED <<world_vars, configuration_sets, root_path, built_in_slice_path, session_ready,
                   last_parsed, returned, panicked, thread_vars, backend_vars>>

\* an update from the settings that also stores the built-in path anew
update_configurations_from_params_storing(c) ==
    /\ AfterClear
    /\ session_pc' = "updated"
    /\ IF ~IsSome(root_path)
       THEN /\ panicked' = TRUE
            /\ UNCHANGED <<configuration_sets, last_parsed, built_in_slice_path>>
       ELSE LET parsed == parse_or_default(ConfigurationsInputs[c], Unwrap(root_path), built_in_slice_path)
            IN /\ last_parsed' = Some(parsed)
               /\ configuration_sets' = update_configurations(parsed, root_path, built_in_slice_path)
               /\ built_in_slice_path' = <<>>
               /\ UNCHANGED panicked
    /\ UNCHANGED <<world_vars, client_vars, nevents, root_path, session_ready,
                   returned, thread_vars, backend_vars>>

\* Session::update_configurations_from_params
update_configurations_from_params(c) ==
    /\ AfterClear
    /\ session_pc' = "updated"
    /\ IF ~IsSome(root_path)
       THEN /\ panicked' = TRUE
            /\ UNCHANGED <<configuration_sets, last_parsed>>
       ELSE LET parsed == parse_or_default(ConfigurationsInputs[c], Unwrap(root_path), built_in_slice_path)
            IN /\ last_parsed' = Some(parsed)
               /\ configuration_sets' = update_configurations(parsed, root_path, built_in_slice_path)
               /\ UNCHANGED panicked
    /\ UNCHANGED <<world_vars, client_vars, nevents, root_path, built_in_slice_path, session_ready,
                   returned, thread_vars, backend_vars>>

\* compile_and_publish_diagnostics: the last step of a configuration change,
\* or the whole of a file change
compile_and_publish_diagnostics ==
    /\ \/ AfterUpdate /\ nevents' = nevents
       \/ HandlerIdle /\ nevents < MaxEvents /\ nevents' = nevents + 1
    /\ session_pc' = "idle"
    /\ LET r == compile_and_publish_from(configuration_sets, Client, 1, broken,
                                         [event |-> nevents', step |-> "publish"])
       IN /\ configuration_sets' = r.sets
          /\ SetClient(r.client)
    /\ UNCHANGED <<world_vars, root_path, built_in_slice_path, session_ready, last_parsed, returned,
                   panicked, thread_vars, backend_vars>>

\* the pooled diagnostics, in the order the threads ended
pool_in_finish_order(results, order) == Concat([k \in 1..Len(order) |-> Unwrap(results[order[k]])])

\* for handle in handles { diagnostics.extend(handle.join()) }
pool_diagnostics(results, order) == Concat([i \in 1..Len(results) |-> Unwrap(results[i])])

\* Session::compile_everything: no set panics, one set is compiled in place,
\* several sets get one thread each
compile_everything ==
    /\ HandlerIdle
    /\ nevents < MaxEvents
    /\ nevents' = nevents + 1
    /\ IF configuration_sets = <<>>
       THEN /\ panicked' = TRUE
            /\ UNCHANGED <<configuration_sets, returned, session_pc, thread_vars>>
       ELSE IF Len(configuration_sets) = 1
       THEN LET c == trigger_compilation(configuration_sets[1], broken) IN
            /\ configuration_sets' = <<c.set>>
            /\ returned' = c.diagnostics
            /\ UNCHANGED <<panicked, session_pc, thread_vars>>
       ELSE /\ session_pc' = "compiling"
            /\ handles' = [i \in 1..Len(configuration_sets) |-> <<>>]
            /\ finished' = <<>>
            /\ UNCHANGED <<configuration_sets, returned, panicked>>
    /\ UNCHANGED <<world_vars, client_vars, root_path, built_in_slice_path, session_ready, last_parsed, backend_vars>>

\* a thread that compiles every set of the list
compilation_thread_all(i) ==
    /\ session_pc = "compiling"
    /\ handles[i] = <<>>
    /\ configuration_sets' = [j \in 1..Len(configuration_sets) |->
                                  trigger_compilation(configuration_sets[j], broken).set]
    /\ handles' = [handles EXCEPT ![i] = Some(trigger_compilation(configuration_sets[i], broken).diagnostics)]
    /\ finished' = Append(finished, i)
    /\ UNCHANGED <<world_vars, client_vars, nevents, root_path, built_in_slice_path, session_ready,
                   last_parsed, returned, panicked, session_pc, backend_vars>>

\* the thread spawned for set i: set.trigger_compilation()
compilation_thread(i) ==
    /\ session_pc = "compiling"
    /\ handles[i] = <<>>
    /\ LET c == trigger_compilation(configuration_sets[i], broken) IN
       /\ configuration_sets' = [configuration_sets EXCEPT ![i] = c.set]
       /\ handles' = [handles EXCEPT ![i] = Some(c.diagnostics)]
    /\ finished' = Append(finished, i)
    /\ UNCHANGED <<world_vars, client_vars, nevents, root_path, built_in_slice_path, session_ready,
                   last_parsed, returned, panicked, session_pc, backend_vars>>

\* Session::compile_everything, lines 123-128: every thread is joined, in the
\* order of the handles
join_handles ==
    /\ session_pc = "compiling"
    /\ \A i \in 1..Len(handles) : IsSome(handles[i])
    /\ returned' = pool_diagnostics(handles, finished)
    /\ session_pc' = "idle"
    /\ handles' = <<>>
    /\ UNCHANGED <<world_vars, client_vars, nevents, configuration_sets, root_path, built_in_slice_path,
                   session_ready, last_parsed, panicked, finished, backend_vars>>

\* the user edits FileA: its content compiles, or it does not
EditFile ==
    /\ broken' = IF FileA \in broken THEN broken \ {FileA} ELSE broken \cup {FileA}
    /\ UNCHANGED <<client_vars, nevents, session_vars, backend_vars>>

-----------------------------------------------------------------------------
(* Backend (main.rs): handlers.  tower-lsp runs handlers concurrently; a     *)
(* handler is cut where it waits for a lock that another handler may hold.   *)
(* A step that holds the shared_state mutex from start to end is atomic.     *)

\* Backend::initialize
initialize(i) ==
    /\ ~backend_ready
    /\ LET root_file_path == IF IsSome(RootUriInputs[i]) THEN Url_to_file_path(Unwrap(RootUriInputs[i])) ELSE <<>>
           fixed_uri == IF IsSome(root_file_path) THEN Url_from_file_path(Unwrap(root_file_path)) ELSE <<>>
       IN /\ workspace_uri' = fixed_uri
          /\ sources_uri' = fixed_uri
    /\ backend_ready' = TRUE
    /\ UNCHANGED <<world_vars, client_vars, nevents, session_vars, reference_uris,
                   shared_state, initialized_started, pc, locals, diag_vars>>

\* Backend::initialized, lines 94-107: the directories the client answers
\* with replace the sources and reference URIs
initialized(h, sv, rv) ==
    /\ backend_ready /\ ~initialized_started
    /\ Free(h)
    /\ nevents < MaxRequests
    /\ nevents' = nevents + 1
    /\ initialized_started' = TRUE
    /\ sources_uri' = get_sources_directory(workspace_uri, SourceDirectoryInputs[sv])
    /\ reference_uris' = get_reference_directories(workspace_uri, ReferenceDirectoryInputs[rv])
    /\ Goto(h, "initialized_compile")
    /\ locals' = [locals EXCEPT ![h] = [NoLocals EXCEPT !.kind = "initialized", !.event = nevents + 1]]
    /\ UNCHANGED <<world_vars, client_vars, session_vars, workspace_uri, shared_state, backend_ready, diag_vars>>

\* Backend::initialized, lines 109-118, under the shared_state mutex
initialized_compile(h) ==
    /\ pc[h] = "initialized_compile"
    /\ LET c == compile_slice_files
           stored == [compilation_state |-> c.state, compilation_options |-> c.options]
       IN /\ shared_state' = take_diagnostics(stored)
          /\ SetClient(publish_diagnostics_for_all_files(Client, stored,
                           [event |-> locals[h].event, step |-> "publish"]))
    /\ Finish(h)
    /\ UNCHANGED <<world_vars, nevents, session_vars, workspace_uri, sources_uri,
                   reference_uris, backend_ready, initialized_started, diag_vars>>

\* Backend::did_change_configuration, lines 135-154
did_change_configuration(h, sv, rv) ==
    /\ initialized_started
    /\ Free(h)
    /\ nevents < MaxRequests
    /\ nevents' = nevents + 1
    /\ LET sources_directory == get_sources_directory(workspace_uri, SourceDirectoryInputs[sv])
           reference_directories == get_reference_directories(workspace_uri, ReferenceDirectoryInputs[rv])
       IN IF IsSome(sources_directory) \/ IsSome(reference_directories)
          THEN /\ sources_uri' = IF IsSome(sources_directory) THEN sources_directory ELSE sources_uri
               /\ Goto(h, "set_reference_uris")
               /\ locals' = [locals EXCEPT ![h] = [NoLocals EXCEPT !.kind = "did_change_configuration",
                                 !.event = nevents + 1, !.s = sources_directory, !.r = reference_directories,
                                 !.replaced = sources_uri]]
          ELSE UNCHANGED <<sources_uri, pc, locals>>
    /\ UNCHANGED <<world_vars, client_vars, session_vars, workspace_uri, reference_uris,
                   shared_state, backend_ready, initialized_started, diag_vars>>

\* lines 156-158
set_reference_uris(h) ==
    /\ pc[h] = "set_reference_uris"
    /\ reference_uris' = IF IsSome(locals[h].r) THEN locals[h].r ELSE reference_uris
    /\ Goto(h, "current_files")
    /\ UNCHANGED <<world_vars, client_vars, nevents, session_vars, workspace_uri, sources_uri,
                   shared_state, backend_ready, initialized_started, locals, diag_vars>>

\* lines 162-170: the mutex is held for this statement only
current_files(h) ==
    /\ pc[h] = "current_files"
    /\ locals' = [locals EXCEPT ![h].current_files = shared_state.compilation_state.files]
    /\ Goto(h, "recompile")
    /\ UNCHANGED <<world_vars, client_vars, nevents, session_vars, workspace_uri, sources_uri,
                   reference_uris, shared_state, backend_ready, initialized_started, diag_vars>>

\* line 173
recompile(h) ==
    /\ pc[h] = "recompile"
    /\ LET c == compile_slice_files IN
       locals' = [locals EXCEPT ![h].updated_state = c.state, ![h].options = c.options]
    /\ Goto(h, "clear_removed")
    /\ UNCHANGED <<world_vars, client_vars, nevents, session_vars, workspace_uri, sources_uri,
                   reference_uris, shared_state, backend_ready, initialized_started, diag_vars>>

\* lines 175-183
clear_removed(h) ==
    /\ pc[h] = "clear_removed"
    /\ LET removed == locals[h].current_files \ locals[h].updated_state.files IN
       SetClient(publish_map_from(Client, files_map(removed), 1,
                                  [event |-> locals[h].event, step |-> "clear"]))
    /\ Goto(h, "store_and_publish")
    /\ UNCHANGED <<world_vars, nevents, session_vars, workspace_uri, sources_uri,
                   reference_uris, shared_state, backend_ready, initialized_started, locals, diag_vars>>

\* lines 185-191, under the shared_state mutex
store_and_publish(h) ==
    /\ pc[h] = "store_and_publish"
    /\ LET stored == [compilation_state |-> locals[h].updated_state,
                      compilation_options |-> locals[h].options]
       IN /\ shared_state' = take_diagnostics(stored)
          /\ SetClient(publish_diagnostics_for_all_files(Client, stored,
                           [event |-> locals[h].event, step |-> "publish"]))
    /\ Finish(h)
    /\ UNCHANGED <<world_vars, nevents, session_vars, workspace_uri, sources_uri,
                   reference_uris, backend_ready, initialized_started, diag_vars>>

\* Backend::did_open, Backend::did_save: handle_file_change, line 277
handle_file_change(h, u) ==
    /\ initialized_started
    /\ Free(h)
    /\ nevents < MaxRequests
    /\ nevents' = nevents + 1
    /\ LET c == compile_slice_files IN
       locals' = [locals EXCEPT ![h] = [NoLocals EXCEPT !.kind = "handle_file_change",
                     !.event = nevents + 1, !.uri = Some(FileChangeInputs[u]),
                     !.updated_state = c.state, !.options = c.options]]
    /\ Goto(h, "store_and_publish_uri")
    /\ UNCHANGED <<world_vars, client_vars, session_vars, workspace_uri, sources_uri,
                   reference_uris, shared_state, backend_ready, initialized_started, diag_vars>>

\* handle_file_change, lines 279-290, under the shared_state mutex
store_and_publish_uri(h) ==
    /\ pc[h] = "store_and_publish_uri"
    /\ LET stored == [compilation_state |-> locals[h].updated_state,
                      compilation_options |-> locals[h].options]
           uri == Unwrap(locals[h].uri)
       IN /\ shared_state' = take_diagnostics(stored)
          /\ SetClient(publish_diagnostics(Client, uri, get_diagnostics_for_uri(uri, stored),
                           [event |-> locals[h].event, step |-> "publish"]))
    /\ Finish(h)
    /\ UNCHANGED <<world_vars, nevents, session_vars, workspace_uri, sources_uri,
                   reference_uris, backend_ready, initialized_started, diag_vars>>

-----------------------------------------------------------------------------
(* The SliceConfig structs under their setters *)

\* config.rs: SliceConfig::default()
SliceConfig_default ==
    [built_in_slice_path |-> <<>>, references |-> <<>>, root_uri |-> <<>>,
     cached_slice_options |-> SliceOptions_default]

\* config.rs: SliceConfig::refresh_reference_paths
refresh_reference_paths(self) ==
    [self EXCEPT !.cached_slice_options = [references |-> resolve_reference_paths(self)]]

\* config.rs: SliceConfig::set_root_uri
set_root_uri(self, root) == refresh_reference_paths([self EXCEPT !.root_uri = Some(root)])

\* config.rs: SliceConfig::set_built_in_reference
set_built_in_reference(self, path) == [self EXCEPT !.built_in_slice_path = path]

\* config.rs: SliceConfig::update_from_params, on the parsed reference directories
update_from_params(self, references) ==
    refresh_reference_paths([self EXCEPT !.references = references])

\* config.rs: SliceConfig::as_slice_options
Config_as_slice_options(self) == self.cached_slice_options

\* slice_config.rs: SliceConfig::default()
PathsConfig_default == [paths |-> <<>>, include_built_in_path |-> FALSE, cached_slice_options |-> <<>>]

\* slice_config.rs: crate::server_config()
TheServerConfig == [root_uri |-> Unwrap(Url_from_file_path(Root)), built_in_slice_path |-> Builtin]

\* slice_config.rs: SliceConfig::update_from_paths
update_from_paths(self, paths) == [self EXCEPT !.paths = Some(paths), !.cached_slice_options = <<>>]

\* slice_config.rs: SliceConfig::update_include_built_in_path
update_include_built_in_path(self, include) ==
    [self EXCEPT !.include_built_in_path = include, !.cached_slice_options = <<>>]

\* slice_config.rs: SliceConfig::as_slice_options: the struct with its cache
\* filled, and the options it returns
PathsConfig_as_slice_options(self) ==
    LET filled == IF IsSome(self.cached_slice_options) THEN self
                  ELSE [self EXCEPT !.cached_slice_options =
                           Some([references |-> SliceConfig_resolve_paths(
                               [paths |-> self.paths, include_built_in_path |-> self.include_built_in_path],
                               TheServerConfig)])]
    IN [self |-> filled, options |-> Unwrap(filled.cached_slice_options)]

-----------------------------------------------------------------------------
(* The locks of the Session (tokio::sync::Mutex and RwLock).  Both are fair: *)
(* a lock that cannot be granted at once queues its task, and a queued task  *)
(* is served before any task that asks later, so a reader that arrives while *)
(* a writer waits queues behind the writer.                                  *)

LockTasks == 1..NumTasks

LockNames == {"configuration_sets", "root_path", "built_in_slice_path", "server_config"}

\* a lock nobody holds: the read guards each task holds, the task that holds
\* the write guard (0: none), the tasks that wait
NoLock == [readers |-> [t \in LockTasks |-> 0], writer |-> 0, queue |-> <<>>]

Grantable(lock, mode) ==
    IF mode = "read" THEN lock.writer = 0
    ELSE lock.writer = 0 /\ \A t \in LockTasks : lock.readers[t] = 0

Grant(lock, t, mode) ==
    IF mode = "read" THEN [lock EXCEPT !.readers[t] = @ + 1] ELSE [lock EXCEPT !.writer = t]

\* the waiting tasks are served in the order they asked
RECURSIVE Wake(_)
Wake(lock) ==
    IF lock.queue # <<>> /\ Grantable(lock, Head(lock.queue).mode)
    THEN Wake(Grant([lock EXCEPT !.queue = Tail(@)], Head(lock.queue).task, Head(lock.queue).mode))
    ELSE lock

\* lock().await, read().await, write().await: granted at once, or queued
Acquire(lock, t, mode) ==
    IF lock.queue = <<>> /\ Grantable(lock, mode) THEN Grant(lock, t, mode)
    ELSE [lock EXCEPT !.queue = Append(@, [task |-> t, mode |-> mode])]

\* the drop of a guard
Release(lock, t, mode) ==
    Wake(IF mode = "read" THEN [lock EXCEPT !.readers[t] = @ - 1] ELSE [lock EXCEPT !.writer = 0])

Waiting(lock, t) == \E i \in 1..Len(lock.queue) : lock.queue[i].task = t

Acq(name, mode) == [op |-> "acquire", lock |-> name, mode |-> mode]
Rel(name, mode) == [op |-> "release", lock |-> name, mode |-> mode]

\* update_configurations that takes the write lock of the root path
update_configurations_locks_writing(empty) ==
    (IF empty
     THEN <<Acq("root_path", "write"), Acq("built_in_slice_path", "read"),
            Rel("built_in_slice_path", "read"), Rel("root_path", "write")>>
     ELSE <<>>)
    \o <<Acq("configuration_sets", "write"), Rel("configuration_sets", "write")>>

\* Session::update_configurations: the locks it takes and drops, in order;
\* empty: no configuration was parsed and the default set is made
update_configurations_locks(empty) ==
    (IF empty
     THEN <<Acq("root_path", "read"), Acq("built_in_slice_path", "read"),
            Rel("built_in_slice_path", "read"), Rel("root_path", "read")>>
     ELSE <<>>)
    \o <<Acq("configuration_sets", "write"), Rel("configuration_sets", "write")>>

\* Session::update_from_initialize_params: each write guard is a temporary
update_from_initialize_params_locks(empty) ==
    <<Acq("built_in_slice_path", "write"), Rel("built_in_slice_path", "write"),
      Acq("root_path", "write"), Rel("root_path", "write")>>
    \o update_configurations_locks(empty)

\* Session::update_configurations_from_params: both read guards live to the
\* end of the function
update_configurations_from_params_locks(empty) ==
    <<Acq("built_in_slice_path", "read"), Acq("root_path", "read")>>
    \o update_configurations_locks(empty)
    \o <<Rel("root_path", "read"), Rel("built_in_slice_path", "read")>>

\* clear_diagnostics
clear_diagnostics_locks ==
    <<Acq("configuration_sets", "write"), Rel("configuration_sets", "write")>>

\* compile_and_publish_diagnostics
compile_and_publish_diagnostics_locks ==
    <<Acq("configuration_sets", "write"), Acq("server_config", "read"),
      Rel("server_config", "read"), Rel("configuration_sets", "write")>>

\* the locks of a whole handler
HandlerLocks(kind, empty) ==
    IF kind = "initialize" THEN update_from_initialize_params_locks(empty)
    ELSE IF kind = "did_change_configuration"
    THEN clear_diagnostics_locks \o update_configurations_from_params_locks(empty)
         \o compile_and_publish_diagnostics_locks
    ELSE IF kind = "did_save" THEN compile_and_publish_diagnostics_locks
    ELSE <<>>

NoTask == [kind |-> "none", empty |-> FALSE, at |-> 1]

LocksOf(t) == HandlerLocks(tasks[t].kind, tasks[t].empty)

Blocked(t) == \E name \in LockNames : Waiting(locks[name], t)

Started(t) == tasks[t].kind # "none"

HandlerDone(t) == Started(t) /\ tasks[t].at > Len(LocksOf(t)) /\ ~Blocked(t)

Runnable(t) == Started(t) /\ tasks[t].at <= Len(LocksOf(t)) /\ ~Blocked(t)

LockFrame ==
    UNCHANGED <<world_vars, client_vars, nevents, session_vars, workspace_uri, sources_uri,
                reference_uris, shared_state, backend_ready, initialized_started, pc, locals,
                diagnostics_in, publish_map_in, processed, resolve_vars, parse_vars, query_vars,
                config_vars>>

\* the initialize request is handled first, and alone
start_initialize(empty) ==
    /\ \A t \in LockTasks : ~Started(t)
    /\ tasks' = [tasks EXCEPT ![1] = [kind |-> "initialize", empty |-> empty, at |-> 1]]
    /\ UNCHANGED locks
    /\ LockFrame

\* a notification is dispatched to the first free task, once initialize has
\* returned
start_handler(t, kind, empty) ==
    /\ tasks[1].kind = "initialize" /\ HandlerDone(1)
    /\ ~Started(t) /\ \A u \in LockTasks : u < t => Started(u)
    /\ tasks' = [tasks EXCEPT ![t] = [kind |-> kind, at |-> 1,
                                      empty |-> empty /\ kind = "did_change_configuration"]]
    /\ UNCHANGED locks
    /\ LockFrame

\* task t asks for its next lock
acquire(t) ==
    /\ Runnable(t)
    /\ LET o == LocksOf(t)[tasks[t].at] IN
       /\ o.op = "acquire"
       /\ locks' = [locks EXCEPT ![o.lock] = Acquire(@, t, o.mode)]
    /\ tasks' = [tasks EXCEPT ![t].at = @ + 1]
    /\ LockFrame

\* task t drops its next guard
release(t) ==
    /\ Runnable(t)
    /\ LET o == LocksOf(t)[tasks[t].at] IN
       /\ o.op = "release"
       /\ locks' = [locks EXCEPT ![o.lock] = Release(@, t, o.mode)]
    /\ tasks' = [tasks EXCEPT ![t].at = @ + 1]
    /\ LockFrame

NextLocks ==
    \/ \E empty \in BOOLEAN : start_initialize(empty)
    \/ \E t \in LockTasks, kind \in {"did_change_configuration", "did_save"}, empty \in BOOLEAN :
           start_handler(t, kind, empty)
    \/ \E t \in LockTasks : acquire(t)
    \/ \E t \in LockTasks : release(t)

InitSession ==
    /\ broken = {}
    /\ published = <<>>
    /\ popups = <<>>
    /\ editor = [uri \in AllUris |-> <<>>]
    /\ nevents = 0
    /\ configuration_sets = <<>>
    /\ root_path = <<>>
    /\ built_in_slice_path = <<>>
    /\ session_ready = FALSE
    /\ last_parsed = <<>>
    /\ returned = <<>>
    /\ panicked = FALSE
    /\ session_pc = "idle"
    /\ handles = <<>>
    /\ finished = <<>>

InitBackend ==
    /\ workspace_uri = <<>>
    /\ sources_uri = <<>>
    /\ reference_uris = <<>>
    /\ shared_state = SharedState_new
    /\ backend_ready = FALSE
    /\ initialized_started = FALSE
    /\ pc = [h \in Handlers |-> "idle"]
    /\ locals = [h \in Handlers |-> NoLocals]

DiagIdle ==
    /\ diagnostics_in = <<>>
    /\ publish_map_in = files_map({})
    /\ processed = <<>>

ResolveIdle ==
    /\ resolve_in = [root_uri |-> Unwrap(Url_from_file_path(Root)), paths |-> <<>>,
                     include_built_in_path |-> FALSE, built_in_slice_path |-> <<>>]
    /\ resolved_paths = <<>>
    /\ resolved_references = <<>>

ParseIdle ==
    /\ descriptor_in = DescNone
    /\ parsed_descriptor = <<>>
    /\ parsed_config = <<>>

QueryIdle ==
    /\ query_in = [uri |-> Unwrap(Url_from_file_path(FileA)), position |-> <<0, 0>>,
                   span |-> Unwrap(SpanIn(FileA)), order |-> "forward"]
    /\ matched = <<>>
    /\ hover_out = <<>>
    /\ jump_out = <<>>
    /\ lsp_out = <<>>
    /\ converted = <<>>

LocksIdle ==
    /\ locks = [name \in LockNames |-> NoLock]
    /\ tasks = [t \in LockTasks |-> NoTask]

ConfigIdle ==
    /\ reference_config = SliceConfig_default
    /\ paths_config = PathsConfig_default

FunctionsIdle == ParseIdle /\ QueryIdle /\ LocksIdle /\ ConfigIdle

InitServer == InitSession /\ InitBackend

Init == InitServer /\ DiagIdle /\ ResolveIdle /\ FunctionsIdle

Next ==
    \/ \E b \in 1..Len(BuiltInInputs), c \in 1..Len(ConfigurationsInputs) : update_from_initialize_params(b, c)
    \/ \E c \in 1..Len(ConfigurationsInputs) : update_configurations_from_params(c)
    \/ compile_everything
    \/ \E i \in 1..Len(handles) : compilation_thread(i)
    \/ join_handles
    \/ compile_and_publish_diagnostics
    \/ ClearDiagnostics
    \/ EditFile

Spec == Init /\ [][Next]_vars

NextBackend ==
    \/ \E i \in 1..Len(RootUriInputs) : initialize(i)
    \/ \E h \in Handlers, sv \in 1..Len(SourceDirectoryInputs), rv \in 1..Len(ReferenceDirectoryInputs) :
           initialized(h, sv, rv)
    \/ \E h \in Handlers : initialized_compile(h)
    \/ \E h \in Handlers, sv \in 1..Len(SourceDirectoryInputs), rv \in 1..Len(ReferenceDirectoryInputs) :
           did_change_configuration(h, sv, rv)
    \/ \E h \in Handlers : set_reference_uris(h)
    \/ \E h \in Handlers : current_files(h)
    \/ \E h \in Handlers : recompile(h)
    \/ \E h \in Handlers : clear_removed(h)
    \/ \E h \in Handlers : store_and_publish(h)
    \/ \E h \in Handlers, u \in 1..Len(FileChangeInputs) : handle_file_change(h, u)
    \/ \E h \in Handlers : store_and_publish_uri(h)
    \/ EditFile

SpecBackend == Init /\ [][NextBackend]_vars

SpecLocks == Init /\ [][NextLocks]_vars

-----------------------------------------------------------------------------
(* Position queries: the syntax tree of a.slice                              *)
(*                                                                           *)
(*   1  /// {@link E}  @see Gone                                             *)
(*   2  struct S { a: int32, u: Unknown,                                     *)
(*   3    b: E?, c: I, d: T }                                                *)
(*   4  enum E : uint8 { .. }                                                *)
(*   5  class C : B { e: S, f: C }                                           *)
(*   6  interface I : J { /// @throws X  op() throws X }  exception Z : X    *)
(*   7  class B, interface J                                                 *)
(*   8  exception X, custom T                                                *)
(*                                                                           *)
(* A Location is <<row, col>>, one-based; a Span holds its file, its start   *)
(* and its end.                                                              *)

SpanOf(start, end) == [file |-> FileA, start |-> start, end |-> end]

\* the definitions a reference can lead to: the kind of type each is, the
\* span of the whole definition and the span of its identifier
Entities == {"S", "E", "C", "I", "Z", "B", "J", "X", "T"}

Entity(name) ==
    CASE name = "S" -> [kind |-> "Struct", span |-> SpanOf(<<2, 1>>, <<3, 6>>), identifier |-> SpanOf(<<2, 2>>, <<2, 2>>)]
      [] name = "E" -> [kind |-> "Enum", span |-> SpanOf(<<4, 1>>, <<4, 6>>), identifier |-> SpanOf(<<4, 2>>, <<4, 2>>)]
      [] name = "C" -> [kind |-> "Class", span |-> SpanOf(<<5, 1>>, <<5, 6>>), identifier |-> SpanOf(<<5, 1>>, <<5, 1>>)]
      [] name = "I" -> [kind |-> "Interface", span |-> SpanOf(<<6, 1>>, <<6, 4>>), identifier |-> SpanOf(<<6, 1>>, <<6, 1>>)]
      [] name = "Z" -> [kind |-> "Exception", span |-> SpanOf(<<6, 5>>, <<6, 6>>), identifier |-> SpanOf(<<6, 5>>, <<6, 5>>)]
      [] name = "B" -> [kind |-> "Class", span |-> SpanOf(<<7, 1>>, <<7, 3>>), identifier |-> SpanOf(<<7, 2>>, <<7, 2>>)]
      [] name = "J" -> [kind |-> "Interface", span |-> SpanOf(<<7, 4>>, <<7, 6>>), identifier |-> SpanOf(<<7, 5>>, <<7, 5>>)]
      [] name = "X" -> [kind |-> "Exception", span |-> SpanOf(<<8, 1>>, <<8, 3>>), identifier |-> SpanOf(<<8, 2>>, <<8, 2>>)]
      [] name = "T" -> [kind |-> "CustomType", span |-> SpanOf(<<8, 4>>, <<8, 6>>), identifier |-> SpanOf(<<8, 5>>, <<8, 5>>)]

\* TypeRefDefinition: Patched(..) is Some of the type, Unpatched is None
Patched(kind, name) == Some([kind |-> kind, name |-> name])
Unpatched == <<>>

\* a TypeRef: its span, its definition, whether it is optional
TypeRef(first, last, definition, is_optional) ==
    [span |-> SpanOf(first, last), definition |-> definition, is_optional |-> is_optional]

RefTo(first, last, name) == TypeRef(first, last, Patched(Entity(name).kind, name), FALSE)

\* doc comments: a message is a list of components, a link names the entity
\* it resolved to (None for a link that did not resolve)
Text == [link |-> FALSE, linked_entity |-> <<>>, span |-> SpanOf(<<1, 3>>, <<1, 3>>)]
Link(first, last, linked_entity) == [link |-> TRUE, linked_entity |-> linked_entity, span |-> SpanOf(first, last)]

NoComment == <<>>
CommentOfS ==
    Some([overview |-> Some(<<Text, Link(<<1, 1>>, <<1, 2>>, Some("E"))>>),
          returns |-> <<>>, params |-> <<>>,
          see |-> <<Link(<<1, 4>>, <<1, 5>>, <<>>)>>,
          throws |-> <<>>])
CommentOfOp ==
    Some([overview |-> <<>>, returns |-> <<>>, params |-> <<>>, see |-> <<>>,
          throws |-> <<[message |-> <<Text>>, thrown_type |-> Some("X"), span |-> SpanOf(<<6, 3>>, <<6, 3>>)]>>])

Node(kind, comment) == [kind |-> kind, comment |-> comment]
TypeRefNode(typeref) == [kind |-> "type_ref", type_ref |-> typeref]

\* the nodes of a.slice, each definition before what it holds
NodesOfA ==
    << Node("module", NoComment),
       Node("struct", CommentOfS),
       Node("field", NoComment), TypeRefNode(TypeRef(<<2, 4>>, <<2, 5>>, Patched("Primitive", "Int32"), FALSE)),
       Node("field", NoComment), TypeRefNode(TypeRef(<<2, 6>>, <<2, 6>>, Unpatched, FALSE)),
       Node("field", NoComment), TypeRefNode(TypeRef(<<3, 1>>, <<3, 2>>, Patched("Enum", "E"), TRUE)),
       Node("field", NoComment), TypeRefNode(RefTo(<<3, 3>>, <<3, 4>>, "I")),
       Node("field", NoComment), TypeRefNode(RefTo(<<3, 5>>, <<3, 5>>, "T")),
       [kind |-> "enum", comment |-> NoComment,
        underlying |-> Some(TypeRef(<<4, 4>>, <<4, 5>>, Patched("Primitive", "UInt8"), FALSE))],
       Node("enumerator", NoComment),
       [kind |-> "class", comment |-> NoComment, base |-> Some(RefTo(<<5, 3>>, <<5, 4>>, "B"))],
       Node("field", NoComment), TypeRefNode(RefTo(<<5, 5>>, <<5, 5>>, "S")),
       Node("field", NoComment), TypeRefNode(RefTo(<<5, 6>>, <<5, 6>>, "C")),
       [kind |-> "interface", comment |-> NoComment, bases |-> <<RefTo(<<6, 2>>, <<6, 2>>, "J")>>],
       [kind |-> "operation", comment |-> CommentOfOp,
        exception_specification |-> <<RefTo(<<6, 4>>, <<6, 4>>, "X")>>],
       [kind |-> "exception", comment |-> NoComment, base |-> Some(RefTo(<<6, 6>>, <<6, 6>>, "X"))],
       [kind |-> "class", comment |-> NoComment, base |-> <<>>],
       [kind |-> "interface", comment |-> NoComment, bases |-> <<>>],
       [kind |-> "exception", comment |-> NoComment, base |-> <<>>],
       Node("custom_type", NoComment) >>

\* the SliceFile stored under a key of a file table
SliceFile(key) == IF key = FileA THEN NodesOfA ELSE <<Node("module", NoComment)>>

Reverse(s) == [i \in 1..Len(s) |-> s[Len(s) + 1 - i]]

\* SliceFile::visit_with hands the nodes to the visitor one by one; the
\* order is the traversal's
Visited(file) == IF query_in.order = "forward" THEN file ELSE Reverse(file)

-----------------------------------------------------------------------------
(* Position queries: the visitors *)

\* Location's order (slicec): by row, then by column
Location_le(a, b) == a[1] < b[1] \/ (a[1] = b[1] /\ a[2] <= b[2])

\* Location::is_within (slicec), the test of HoverVisitor and JumpVisitor
is_within(location, span) == Location_le(span.start, location) /\ Location_le(location, span.end)

\* LspVisitor::is_location_in_span
is_location_in_span(location, span) ==
    /\ location[1] >= span.start[1]
    /\ location[1] <= span.end[1]
    /\ location[2] >= span.start[2]
    /\ location[2] <= span.end[2]

\* a conversion that leaves the position zero-based
to_location_zero_based(position) == <<position[1], position[2]>>

\* "Convert position to row and column 1 based"; line and character are
\* u32 and stay below u32::MAX here
to_location(position) == <<position[1] + 1, position[2] + 1>>

\* ---- hover.rs

describe_primitive_type(primitive_type) ==
    CASE primitive_type = "Bool" -> <<"A", "boolean type.">>
      [] primitive_type = "Int8" -> <<"An", "8-bit signed integer type.">>
      [] primitive_type = "UInt8" -> <<"An", "8-bit unsigned integer type.">>
      [] primitive_type = "Int16" -> <<"A", "16-bit signed integer type.">>
      [] primitive_type = "UInt16" -> <<"A", "16-bit unsigned integer type.">>
      [] primitive_type = "Int32" -> <<"A", "32-bit signed integer type.">>
      [] primitive_type = "UInt32" -> <<"A", "32-bit unsigned integer type.">>
      [] primitive_type = "VarInt32" -> <<"A", "variable-length signed integer type.">>
      [] primitive_type = "VarUInt32" -> <<"A", "variable-length unsigned integer type.">>
      [] primitive_type = "Int64" -> <<"A", "64-bit signed integer type.">>
      [] primitive_type = "UInt64" -> <<"A", "64-bit unsigned integer type.">>
      [] primitive_type = "VarInt62" -> <<"A", "variable-length signed integer type.">>
      [] primitive_type = "VarUInt62" -> <<"A", "variable-length unsigned integer type.">>
      [] primitive_type = "Float32" -> <<"A", "32-bit floating point type.">>
      [] primitive_type = "Float64" -> <<"A", "64-bit floating point type.">>
      [] primitive_type = "String" -> <<"A", "UTF-8 string.">>
      [] primitive_type = "AnyClass" -> <<"A", "instance of any Slice class.">>

\* format!("An optional {description}") or format!("{prefix} {description}")
describe(primitive_type, is_optional) ==
    LET prefix == describe_primitive_type(primitive_type)[1]
        description == describe_primitive_type(primitive_type)[2]
    IN IF is_optional THEN "An optional " \o description ELSE prefix \o " " \o description

HoverVisitor_new(search_location) == [search_location |-> search_location, found_message |-> <<>>]

\* a visit_struct that takes the struct itself for a match
HoverVisitor_visit_struct_matching(self, struct_def) ==
    IF is_within(self.search_location, Entity("S").span)
    THEN [self EXCEPT !.found_message = Some("struct S")]
    ELSE self

HoverVisitor_visit_struct(self, struct_def) == self

HoverVisitor_visit_enum(self, enum_def) ==
    IF ~IsSome(enum_def.underlying) THEN self
    ELSE LET underlying == Unwrap(enum_def.underlying) IN
         IF ~is_within(self.search_location, underlying.span) THEN self
         ELSE [self EXCEPT !.found_message =
                   Some(describe(Unwrap(underlying.definition).name, underlying.is_optional))]

HoverVisitor_visit_type_ref(self, typeref) ==
    IF IsSome(self.found_message) THEN self
    ELSE IF ~is_within(self.search_location, typeref.span) THEN self
    ELSE IF ~IsSome(typeref.definition) THEN self
    ELSE LET type_def == Unwrap(typeref.definition) IN
         [self EXCEPT !.found_message =
              IF type_def.kind = "Primitive"
              THEN Some(describe(type_def.name, typeref.is_optional))
              ELSE <<>>]

\* impl Visitor for HoverVisitor: every other visit_ function is empty
HoverVisitor_visit(self, node) ==
    CASE node.kind = "struct" -> HoverVisitor_visit_struct(self, node)
      [] node.kind = "enum" -> HoverVisitor_visit_enum(self, node)
      [] node.kind = "type_ref" -> HoverVisitor_visit_type_ref(self, node.type_ref)
      [] OTHER -> self

RECURSIVE HoverVisitor_visit_all(_, _)
HoverVisitor_visit_all(self, nodes) ==
    IF nodes = <<>> THEN self
    ELSE HoverVisitor_visit_all(HoverVisitor_visit(self, Head(nodes)), Tail(nodes))

\* get_hover_info: None without a file path or without the file
get_hover_info(state, uri, position) ==
    LET file_path == Url_to_file_path(uri) IN
    IF ~IsSome(file_path) THEN <<>>
    ELSE IF Unwrap(file_path) \notin state.files THEN <<>>
    ELSE HoverVisitor_visit_all(HoverVisitor_new(to_location(position)),
                                Visited(SliceFile(Unwrap(file_path)))).found_message

\* ---- jump_definition.rs

JumpVisitor_new(search_location) == [search_location |-> search_location, found_span |-> <<>>]

\* check_and_set_span: the link resolved and the location is within its span
check_and_set_span(self, linked_entity_result, span) ==
    IF IsSome(linked_entity_result) /\ is_within(self.search_location, span)
    THEN [self EXCEPT !.found_span = Some(Entity(Unwrap(linked_entity_result)).identifier)]
    ELSE self

RECURSIVE check_message_links(_, _)
check_message_links(self, message) ==
    IF message = <<>> THEN self
    ELSE check_message_links(
             IF Head(message).link
             THEN check_and_set_span(self, Head(message).linked_entity, Head(message).span)
             ELSE self,
             Tail(message))

\* the loops of check_comment over the returns and params tags, the see tags
\* and the throws tags
RECURSIVE check_tag_messages(_, _)
check_tag_messages(self, tags) ==
    IF tags = <<>> THEN self
    ELSE check_tag_messages(check_message_links(self, Head(tags).message), Tail(tags))

RECURSIVE check_see(_, _)
check_see(self, see) ==
    IF see = <<>> THEN self
    ELSE check_see(check_and_set_span(self, Head(see).linked_entity, Head(see).span), Tail(see))

RECURSIVE check_throws(_, _)
check_throws(self, throws) ==
    IF throws = <<>> THEN self
    ELSE check_throws(
             check_and_set_span(check_message_links(self, Head(throws).message),
                                Head(throws).thrown_type, Head(throws).span),
             Tail(throws))

check_comment(self, commentable) ==
    IF ~IsSome(commentable.comment) THEN self
    ELSE LET comment == Unwrap(commentable.comment)
             after_overview == IF IsSome(comment.overview)
                               THEN check_message_links(self, Unwrap(comment.overview))
                               ELSE self
             after_returns == check_tag_messages(after_overview, comment.returns)
             after_params == check_tag_messages(after_returns, comment.params)
             after_see == check_see(after_params, comment.see)
         IN check_throws(after_see, comment.throws)

\* the loops over base references and exception specifications: a matching
\* reference that is patched sets found_span to the identifier's span
RECURSIVE JumpVisitor_check_refs(_, _)
JumpVisitor_check_refs(self, refs) ==
    IF refs = <<>> THEN self
    ELSE LET base_ref == Head(refs) IN
         JumpVisitor_check_refs(
             IF is_within(self.search_location, base_ref.span) /\ IsSome(base_ref.definition)
             THEN [self EXCEPT !.found_span = Some(Entity(Unwrap(base_ref.definition).name).identifier)]
             ELSE self,
             Tail(refs))

\* visit_class and visit_exception
JumpVisitor_visit_class(self, class_def) ==
    JumpVisitor_check_refs(check_comment(self, class_def), class_def.base)

JumpVisitor_visit_interface(self, interface_def) ==
    JumpVisitor_check_refs(check_comment(self, interface_def), interface_def.bases)

JumpVisitor_visit_operation(self, operation_def) ==
    JumpVisitor_check_refs(check_comment(self, operation_def), operation_def.exception_specification)

\* a visit_type_ref that clears the result at a reference away from the location
JumpVisitor_visit_type_ref_clearing(self, typeref_def) ==
    IF ~is_within(self.search_location, typeref_def.span)
    THEN [self EXCEPT !.found_span = <<>>]
    ELSE IF ~IsSome(typeref_def.definition) THEN self
    ELSE LET type_def == Unwrap(typeref_def.definition) IN
         [self EXCEPT !.found_span =
              IF type_def.kind \in {"Struct", "Class", "Enum", "CustomType"}
              THEN Some(Entity(type_def.name).identifier)
              ELSE <<>>]

JumpVisitor_visit_type_ref(self, typeref_def) ==
    IF ~is_within(self.search_location, typeref_def.span) THEN self
    ELSE IF ~IsSome(typeref_def.definition) THEN self
    ELSE LET type_def == Unwrap(typeref_def.definition) IN
         [self EXCEPT !.found_span =
              IF type_def.kind \in {"Struct", "Class", "Enum", "CustomType"}
              THEN Some(Entity(type_def.name).identifier)
              ELSE <<>>]

\* impl Visitor for JumpVisitor
JumpVisitor_visit(self, node) ==
    CASE node.kind \in {"class", "exception"} -> JumpVisitor_visit_class(self, node)
      [] node.kind = "interface" -> JumpVisitor_visit_interface(self, node)
      [] node.kind = "operation" -> JumpVisitor_visit_operation(self, node)
      [] node.kind = "type_ref" -> JumpVisitor_visit_type_ref(self, node.type_ref)
      [] node.kind \in {"struct", "enum", "custom_type", "type_alias", "field", "enumerator"} ->
             check_comment(self, node)
      [] OTHER -> self

RECURSIVE JumpVisitor_visit_all(_, _)
JumpVisitor_visit_all(self, nodes) ==
    IF nodes = <<>> THEN self
    ELSE LET visited == JumpVisitor_visit(self, Head(nodes)) IN
         \* a visit writes found_span or nothing
         IF visited.found_span = self.found_span
         THEN JumpVisitor_visit_all(self, Tail(nodes))
         ELSE JumpVisitor_visit_all(visited, Tail(nodes))

get_definition_span(file, position) ==
    JumpVisitor_visit_all(JumpVisitor_new(to_location(position)), Visited(file)).found_span

\* ---- slicec_ext/visitor.rs

LspVisitor_new(search_location) == [search_location |-> search_location, found_span |-> <<>>]

\* the loop of visit_interface over the bases; visit_class and
\* visit_exception test their one base in the same way
RECURSIVE LspVisitor_check_bases(_, _)
LspVisitor_check_bases(self, bases) ==
    IF bases = <<>> THEN self
    ELSE LET base_ref == Head(bases) IN
         LspVisitor_check_bases(
             IF is_location_in_span(self.search_location, base_ref.span)
             THEN [self EXCEPT !.found_span = Some(Entity(Unwrap(base_ref.definition).name).span)]
             ELSE self,
             Tail(bases))

LspVisitor_visit_type_ref(self, typeref) ==
    IF ~is_location_in_span(self.search_location, typeref.span) THEN self
    ELSE IF ~IsSome(typeref.definition) THEN self
    ELSE LET type_def == Unwrap(typeref.definition) IN
         [self EXCEPT !.found_span =
              IF type_def.kind \in {"Struct", "Class", "Interface", "Enum", "CustomType"}
              THEN Some(Entity(type_def.name).span)
              ELSE <<>>]

\* impl Visitor for LspVisitor
LspVisitor_visit(self, node) ==
    CASE node.kind \in {"class", "exception"} -> LspVisitor_check_bases(self, node.base)
      [] node.kind = "interface" -> LspVisitor_check_bases(self, node.bases)
      [] node.kind = "type_ref" -> LspVisitor_visit_type_ref(self, node.type_ref)
      [] OTHER -> self

RECURSIVE LspVisitor_visit_all(_, _)
LspVisitor_visit_all(self, nodes) ==
    IF nodes = <<>> THEN self
    ELSE LspVisitor_visit_all(LspVisitor_visit(self, Head(nodes)), Tail(nodes))

\* ---- main.rs: the request handlers

\* how a request handler ended: the value of Ok(..), or a panic
Completed(value) == [aborted |-> FALSE, value |-> value]
Aborted == [aborted |-> TRUE, value |-> <<>>]

\* Backend::hover; to_file_path().unwrap() panics on a URI that is no file
Backend_hover(uri, position) ==
    IF ~IsSome(Url_to_file_path(uri)) THEN Aborted
    ELSE IF ~IsSome(Url_from_file_path(Unwrap(Url_to_file_path(uri)))) THEN Aborted
    ELSE Completed(get_hover_info(shared_state.compilation_state,
                                  Unwrap(Url_from_file_path(Unwrap(Url_to_file_path(uri)))),
                                  position))

\* the definition span of a position in a document of the compilation state:
\* the file is looked up as get_hover_info looks it up
find_definition_span(state, uri, position) ==
    LET file_path == Url_to_file_path(uri) IN
    IF ~IsSome(file_path) THEN <<>>
    ELSE IF Unwrap(file_path) \notin state.files THEN <<>>
    ELSE get_definition_span(SliceFile(Unwrap(file_path)), position)

\* Backend::goto_definition
Backend_goto_definition(uri, position) ==
    IF ~IsSome(Url_to_file_path(uri)) THEN Aborted
    ELSE IF ~IsSome(Url_from_file_path(Unwrap(Url_to_file_path(uri)))) THEN Aborted
    ELSE LET param_uri == Unwrap(Url_from_file_path(Unwrap(Url_to_file_path(uri))))
             found == find_definition_span(shared_state.compilation_state, param_uri, position)
         IN IF ~IsSome(found) THEN Completed(<<>>)
            ELSE LET location == Unwrap(found)
                     start == <<location.start[1] - 1, location.start[2] - 1>>
                     end == <<location.end[1] - 1, location.end[2] - 1>>
                 IN IF ~IsSome(Url_from_file_path(location.file)) THEN Completed(<<>>)
                    ELSE Completed(Some([uri |-> Unwrap(Url_from_file_path(location.file)),
                                         range |-> [start |-> start, end |-> end]]))

-----------------------------------------------------------------------------
(* process_diagnostics on bounded arguments *)

RelativeFile == <<"builtin", "w.slice">>

\* diagnostics the compiler can hand over: with a span in a file that has a
\* URI, with a span in a file that has none (a relative path), without a span
DiagnosticInputs ==
    { [span |-> SpanIn(FileA), message |-> "syntax"],
      [span |-> SpanIn(FileA), message |-> "undefined"],
      [span |-> Some([file |-> FileA, start |-> <<2, 1>>, end |-> <<2, 4>>]), message |-> "syntax"],
      [span |-> SpanIn(FileB), message |-> "undefined"],
      [span |-> SpanIn(RelativeFile), message |-> "syntax"],
      [span |-> <<>>, message |-> "io"] }

RECURSIVE SeqsUpTo(_, _)
SeqsUpTo(S, n) ==
    IF n = 0 THEN {<<>>}
    ELSE LET shorter == SeqsUpTo(S, n - 1) IN
         shorter \cup {Append(q, x) : q \in shorter, x \in S}

InitDiag ==
    /\ InitServer
    /\ ResolveIdle
    /\ FunctionsIdle
    /\ diagnostics_in \in SeqsUpTo(DiagnosticInputs, MaxDiagnostics)
    /\ publish_map_in \in {files_map({}), files_map({FileA})}
    /\ processed = <<>>

Process ==
    /\ processed = <<>>
    /\ processed' = Some(process_diagnostics(diagnostics_in, publish_map_in))
    /\ UNCHANGED <<world_vars, client_vars, nevents, session_vars, workspace_uri, sources_uri,
                   reference_uris, shared_state, backend_ready, initialized_started, pc,
                   locals, diagnostics_in, publish_map_in, resolve_vars, function_vars>>

NextDiag == Process

SpecDiag == InitDiag /\ [][NextDiag]_vars

-----------------------------------------------------------------------------
(* Path resolution on bounded arguments *)

Abs == <<"/", "abs">>
Device == <<DevicePrefix, "pipe">>

\* declared search paths: relative, absolute, and one no file URL can hold
PathInputs == {Src, Refs, Abs, Device}

\* the workspace root: a file URL, or a URL that is no file path
RootInputs == {Unwrap(Url_from_file_path(Root)), [scheme |-> "untitled", path |-> Root]}

InitResolve ==
    /\ InitServer
    /\ DiagIdle
    /\ FunctionsIdle
    /\ resolve_in \in [root_uri : RootInputs,
                       paths : {<<>>} \cup {Some(q) : q \in SeqsUpTo(PathInputs, MaxPaths)},
                       include_built_in_path : BOOLEAN,
                       built_in_slice_path : {<<>>, Builtin}]
    /\ resolved_paths = <<>>
    /\ resolved_references = <<>>

ServerVarsUnchanged ==
    UNCHANGED <<world_vars, client_vars, nevents, session_vars, workspace_uri, sources_uri,
                reference_uris, shared_state, backend_ready, initialized_started, pc, locals>>

\* SliceConfig::resolve_paths on the arguments
ResolvePaths ==
    /\ resolved_paths = <<>>
    /\ resolved_paths' = Some(SliceConfig_resolve_paths(
            [paths |-> resolve_in.paths, include_built_in_path |-> resolve_in.include_built_in_path],
            [root_uri |-> resolve_in.root_uri, built_in_slice_path |-> resolve_in.built_in_slice_path]))
    /\ ServerVarsUnchanged
    /\ UNCHANGED <<diagnostics_in, publish_map_in, processed, resolve_in, resolved_references,
                   function_vars>>

\* SliceConfig::resolve_reference_paths on the arguments
ResolveReferencePaths ==
    /\ resolved_references = <<>>
    /\ resolved_references' = Some(resolve_reference_paths(
            [built_in_slice_path |-> resolve_in.built_in_slice_path,
             references |-> resolve_in.paths,
             root_uri |-> Some(resolve_in.root_uri)]))
    /\ ServerVarsUnchanged
    /\ UNCHANGED <<diagnostics_in, publish_map_in, processed, resolve_in, resolved_paths,
                   function_vars>>

NextResolve == ResolvePaths \/ ResolveReferencePaths

SpecResolve == InitResolve /\ [][NextResolve]_vars

-----------------------------------------------------------------------------
(* Descriptor parsing on bounded arguments *)

\* entries of a search-path array: strings and values that are no string
EntryInputs == {JString(Src), JString(Refs), JNumber, JNull}

\* values of the search-path key that are no array (JNull: the key is absent)
NoArrayInputs == <<JNull, JBool(TRUE), JNumber, JString(Src)>>

\* values of the include-built-in key (JNull: the key is absent)
FlagInputs == <<JNull, JBool(TRUE), JBool(FALSE), JNumber, JString(Src), JArray(<<>>)>>

InitParse ==
    /\ InitServer
    /\ DiagIdle
    /\ ResolveIdle
    /\ QueryIdle
    /\ LocksIdle
    /\ ConfigIdle
    /\ \E f \in 1..Len(FlagInputs) :
           \/ \E q \in SeqsUpTo(EntryInputs, MaxPaths) :
                  descriptor_in = [paths |-> JArray(q), addWellKnownTypes |-> FlagInputs[f]]
           \/ \E i \in 1..Len(NoArrayInputs) :
                  descriptor_in = [paths |-> NoArrayInputs[i], addWellKnownTypes |-> FlagInputs[f]]
    /\ parsed_descriptor = <<>>
    /\ parsed_config = <<>>

\* ConfigurationSet::from_json on the entry
FromJson ==
    /\ parsed_descriptor = <<>>
    /\ parsed_descriptor' = Some(from_json(descriptor_in, Root, Builtin))
    /\ ServerVarsUnchanged
    /\ UNCHANGED <<diagnostics_in, publish_map_in, processed, resolve_vars, descriptor_in, parsed_config,
                   query_vars, lock_vars, config_vars>>

\* utils.rs parse_configuration_sets on the entry
ParseConfigObj ==
    /\ parsed_config = <<>>
    /\ parsed_config' = Some(parse_config_obj(descriptor_in))
    /\ ServerVarsUnchanged
    /\ UNCHANGED <<diagnostics_in, publish_map_in, processed, resolve_vars, descriptor_in, parsed_descriptor,
                   query_vars, lock_vars, config_vars>>

NextParse == FromJson \/ ParseConfigObj

SpecParse == InitParse /\ [][NextParse]_vars

-----------------------------------------------------------------------------
(* Position queries on bounded arguments *)

\* the documents a request names: a.slice, b.slice, an unsaved document
UriInputs == { Unwrap(Url_from_file_path(FileA)), Unwrap(Url_from_file_path(FileB)),
               [scheme |-> "untitled", path |-> <<"Untitled-1">>] }

\* zero-based editor positions
PositionInputs == (0..MaxLine) \X (0..MaxCharacter)

\* spans a node may have: within one row, over two rows, over three rows
SpanInputs == { SpanOf(<<2, 2>>, <<2, 4>>), SpanOf(<<2, 4>>, <<3, 2>>), SpanOf(<<1, 3>>, <<3, 3>>) }

InitQuery ==
    /\ InitServer
    /\ DiagIdle
    /\ ResolveIdle
    /\ ParseIdle
    /\ LocksIdle
    /\ ConfigIdle
    /\ query_in \in [uri : UriInputs, position : PositionInputs, span : SpanInputs,
                     order : {"forward", "backward"}]
    /\ matched = <<>>
    /\ hover_out = <<>>
    /\ jump_out = <<>>
    /\ lsp_out = <<>>
    /\ converted = <<>>

\* one query is asked in a behaviour, of the state the server is then in
NotAsked == matched = <<>> /\ hover_out = <<>> /\ jump_out = <<>> /\ lsp_out = <<>> /\ converted = <<>>

QueryFrame ==
    UNCHANGED <<world_vars, client_vars, nevents, session_vars, workspace_uri, sources_uri,
                reference_uris, shared_state, backend_ready, initialized_started, pc, locals,
                diagnostics_in, publish_map_in, processed, resolve_vars, parse_vars, query_in,
                lock_vars, config_vars>>

\* the two matching rules on the position's location and the span
Match ==
    /\ NotAsked
    /\ matched' = Some([is_location_in_span |-> is_location_in_span(to_location(query_in.position), query_in.span),
                        is_within |-> is_within(to_location(query_in.position), query_in.span)])
    /\ QueryFrame
    /\ UNCHANGED <<hover_out, jump_out, lsp_out, converted>>

\* a textDocument/hover request
Hover ==
    /\ NotAsked
    /\ backend_ready
    /\ hover_out' = Some(Backend_hover(query_in.uri, query_in.position))
    /\ QueryFrame
    /\ UNCHANGED <<matched, jump_out, lsp_out, converted>>

\* a textDocument/definition request
GotoDefinition ==
    /\ NotAsked
    /\ backend_ready
    /\ jump_out' = Some(Backend_goto_definition(query_in.uri, query_in.position))
    /\ QueryFrame
    /\ UNCHANGED <<matched, hover_out, lsp_out, converted>>

\* an LspVisitor sent through a.slice
LspVisit ==
    /\ NotAsked
    /\ lsp_out' = Some([found_span |->
           LspVisitor_visit_all(LspVisitor_new(to_location(query_in.position)),
                                Visited(SliceFile(FileA))).found_span])
    /\ QueryFrame
    /\ UNCHANGED <<matched, hover_out, jump_out, converted>>

\* a diagnostic with the span, and with a note at the span, converted for
\* the editor
ConvertSpan ==
    /\ NotAsked
    /\ converted' = Some(
           [diagnostic |-> try_into_lsp_diagnostic([span |-> Some(query_in.span), message |-> "syntax"]),
            related_information |-> try_into_lsp_diagnostic_related_information(
                                        [span |-> Some(query_in.span), message |-> "declared here"])])
    /\ QueryFrame
    /\ UNCHANGED <<matched, hover_out, jump_out, lsp_out>>

NextQuery ==
    \/ NotAsked /\ \E i \in 1..Len(RootUriInputs) : initialize(i)
    \/ NotAsked /\ \E h \in Handlers, sv \in 1..Len(SourceDirectoryInputs) : initialized(h, sv, 1)
    \/ NotAsked /\ \E h \in Handlers : initialized_compile(h)
    \/ Match
    \/ Hover
    \/ GotoDefinition
    \/ LspVisit
    \/ ConvertSpan

SpecQuery == InitQuery /\ [][NextQuery]_vars

-----------------------------------------------------------------------------
(* The SliceConfig setters on bounded arguments *)

ConfigFrame ==
    UNCHANGED <<world_vars, client_vars, nevents, session_vars, workspace_uri, sources_uri,
                reference_uris, shared_state, backend_ready, initialized_started, pc, locals,
                diagnostics_in, publish_map_in, processed, resolve_vars, parse_vars, query_vars,
                lock_vars>>

\* values of slice.referenceDirectories, parsed
ReferencesInputs == {<<>>} \cup {Some(q) : q \in SeqsUpTo({Src, Refs}, MaxPaths)}

\* values of a set's paths
PathsInputs == {<<>>, <<Src>>, <<Refs>>}

SetRootUri ==
    \E root \in RootInputs :
        /\ reference_config' = set_root_uri(reference_config, root)
        /\ UNCHANGED paths_config
        /\ ConfigFrame

SetBuiltInReference ==
    \E path \in {<<>>, Builtin} :
        /\ reference_config' = set_built_in_reference(reference_config, path)
        /\ UNCHANGED paths_config
        /\ ConfigFrame

UpdateFromParams ==
    \E references \in ReferencesInputs :
        /\ reference_config' = update_from_params(reference_config, references)
        /\ UNCHANGED paths_config
        /\ ConfigFrame

UpdateFromPaths ==
    \E paths \in PathsInputs :
        /\ paths_config' = update_from_paths(paths_config, paths)
        /\ UNCHANGED reference_config
        /\ ConfigFrame

UpdateIncludeBuiltInPath ==
    \E include \in BOOLEAN :
        /\ paths_config' = update_include_built_in_path(paths_config, include)
        /\ UNCHANGED reference_config
        /\ ConfigFrame

AsSliceOptions ==
    /\ paths_config' = PathsConfig_as_slice_options(paths_config).self
    /\ UNCHANGED reference_config
    /\ ConfigFrame

NextConfig ==
    \/ SetRootUri
    \/ SetBuiltInReference
    \/ UpdateFromParams
    \/ UpdateFromPaths
    \/ UpdateIncludeBuiltInPath
    \/ AsSliceOptions

SpecConfig == Init /\ [][NextConfig]_vars

-----------------------------------------------------------------------------
(* C1 *)

\* C1: once initialization has completed the session's list of configuration
\* sets is never empty, an empty parsed list is replaced by exactly one
\* (default) set, and compile_everything never reaches its empty-list branch.
ConfigurationSetsNeverEmpty ==
    session_ready =>
        /\ Len(configuration_sets) >= 1
        /\ IsSome(last_parsed)
        /\ (Unwrap(last_parsed) = <<>> =>
               /\ Len(configuration_sets) = 1
               /\ configuration_sets[1].slice_config = ConfigurationSet_new(Root, built_in_slice_path).slice_config)
        /\ ~panicked

\* a reconfiguration whose parsed list was empty installed the default set,
\* which was then compiled
DefaultSetInstalled ==
    /\ session_ready
    /\ nevents >= 3
    /\ last_parsed = Some(<<>>)
    /\ Len(configuration_sets) = 1
    /\ configuration_sets[1].compilation_data.files # {}

-----------------------------------------------------------------------------
(* C2, C3, C4, C7, C9, C10: the handlers of main.rs *)

UriOf(k) == Unwrap(convert_slice_url_to_uri(k))

Publish(h) == [event |-> locals[h].event, step |-> "publish"]
Clear(h) == [event |-> locals[h].event, step |-> "clear"]

\* handler h stores its compilation in the shared state in this step
Stores(h) ==
    /\ pc[h] \in {"initialized_compile", "store_and_publish", "store_and_publish_uri"}
    /\ pc'[h] = "idle"

\* the compilation handler h stores when it stores
StoredBy(h) == IF pc[h] = "initialized_compile" THEN compile_slice_files.state ELSE locals[h].updated_state

\* C2: when a configuration change replaces the known files, keeping a file a
\* and dropping a file b, the last notification the editor got about b is an
\* empty list, and it precedes the fresh diagnostics this change publishes for a.
ClearThenPublish ==
    [][\A h \in Handlers :
        (pc[h] = "store_and_publish" /\ pc'[h] = "idle") =>
            \A b \in shared_state.compilation_state.files \ shared_state'.compilation_state.files :
            \A a \in shared_state.compilation_state.files \cap shared_state'.compilation_state.files :
                \E i \in 1..Len(published'), j \in 1..Len(published') :
                    /\ i < j
                    /\ published'[i].uri = UriOf(b)
                    /\ published'[i].diagnostics = <<>>
                    /\ \A k \in (i + 1)..Len(published') : published'[k].uri # UriOf(b)
                    /\ published'[j].uri = UriOf(a)
                    /\ published'[j].op = Publish(h)]_vars

\* C3: a configuration change that drops a file from the known files has
\* published an empty list for it exactly once.
ClearedExactlyOnce ==
    [][\A h \in Handlers :
        (pc[h] = "store_and_publish" /\ pc'[h] = "idle") =>
            \A b \in shared_state.compilation_state.files \ shared_state'.compilation_state.files :
                Cardinality({i \in 1..Len(published') :
                    /\ published'[i].uri = UriOf(b)
                    /\ published'[i].diagnostics = <<>>
                    /\ published'[i].op = Clear(h)}) = 1]_vars

\* C4: the publication that follows a recompilation holds an entry for every
\* file of the compilation it stores.
EveryKnownFilePublished ==
    [][\A h \in Handlers :
        Stores(h) =>
            \A k \in shared_state'.compilation_state.files :
                \E i \in (Len(published) + 1)..Len(published') : published'[i].uri = UriOf(k)]_vars

\* C7: when a compilation whose diagnostics are published reported a
\* diagnostic without a span, a popup with its message is shown.
SpanlessShown ==
    [][\A h \in Handlers :
        Stores(h) =>
            \A n \in 1..Len(StoredBy(h).diagnostics) :
                ~IsSome(StoredBy(h).diagnostics[n].span) =>
                    \E i \in (Len(popups) + 1)..Len(popups') :
                        popups'[i] = StoredBy(h).diagnostics[n].message]_vars

\* C9: when a handler stores a compilation and publishes its diagnostics,
\* the compilation was made with the configuration in force at that moment.
PublishedForCurrentConfiguration ==
    [][\A h \in Handlers :
        Stores(h) => shared_state'.compilation_options = compile_slice_files.options]_vars

\* ConfigurationSet::contains_file for the one configuration of the Backend:
\* a key of the compiled files, or a descendant of a search path
contains_file(state, options, path) ==
    \/ path \in state.files
    \/ \E i \in 1..Len(options.references) : IsPrefix(options.references[i], path)

\* C10: a file-opened or file-saved event recompiles a configuration (one
\* with search paths) only if the configuration contains the file.
RecompiledOnlyIfContained ==
    [][\A h \in Handlers :
        (pc[h] = "idle" /\ pc'[h] = "store_and_publish_uri" /\ locals'[h].options.references # <<>>) =>
            contains_file(locals'[h].updated_state, locals'[h].options,
                          Unwrap(Url_to_file_path(Unwrap(locals'[h].uri))))]_vars

-----------------------------------------------------------------------------
(* Overlapping configuration sets *)

Occurrences(seq, x) == Cardinality({k \in 1..Len(seq) : seq[k] = x})

HasUri(diagnostic) ==
    IsSome(diagnostic.span) /\ IsSome(convert_slice_url_to_uri(Unwrap(diagnostic.span).file))

UriOfDiagnostic(diagnostic) == Unwrap(convert_slice_url_to_uri(Unwrap(diagnostic.span).file))

PublishRound ==
    /\ Len(published') > Len(published)
    /\ published'[Len(published')].op.step = "publish"

\* C5: after one recompile-and-publish round over all sets, for a file that
\* belongs to several sets the editor holds every (span, message) pair that
\* any of those sets reported for the file, exactly once.
OverlapReportedOnce ==
    [][PublishRound =>
        \A i \in 1..Len(configuration_sets') :
            LET reported == trigger_compilation(configuration_sets[i], broken).diagnostics IN
            \A j \in 1..Len(reported) :
                (/\ HasUri(reported[j])
                 /\ Cardinality({n \in 1..Len(configuration_sets') :
                        Unwrap(reported[j].span).file \in configuration_sets'[n].compilation_data.files}) >= 2)
                => Occurrences(editor'[UriOfDiagnostic(reported[j])],
                               Unwrap(try_into_lsp_diagnostic(reported[j]))) = 1
      ]_vars

-----------------------------------------------------------------------------
(* process_diagnostics *)

Produced == Unwrap(processed)

Before(uri) == IF uri \in DOMAIN publish_map_in THEN publish_map_in[uri] ELSE <<>>

\* the entries process_diagnostics is to add under a URI, in input order
AddedUnder(uri) ==
    LET mine == SelectSeq(diagnostics_in, LAMBDA d : HasUri(d) /\ UriOfDiagnostic(d) = uri)
    IN [k \in 1..Len(mine) |-> Unwrap(try_into_lsp_diagnostic(mine[k]))]

\* C6: two diagnostics with identical span and message yield exactly one
\* entry for their file, diagnostics differing in span or message are all
\* kept, and processing the same list again yields the same grouping.
DeduplicatedBySpanAndMessage ==
    IsSome(processed) =>
        /\ \A j \in 1..Len(diagnostics_in) :
               HasUri(diagnostics_in[j]) =>
                   Occurrences(Produced.map[UriOfDiagnostic(diagnostics_in[j])],
                               Unwrap(try_into_lsp_diagnostic(diagnostics_in[j])))
                     = 1 + Occurrences(Before(UriOfDiagnostic(diagnostics_in[j])),
                                       Unwrap(try_into_lsp_diagnostic(diagnostics_in[j])))
        /\ process_diagnostics(diagnostics_in, publish_map_in) = Produced

\* C8 as stated: every diagnostic with a span is in the map under the file of
\* its span, every diagnostic without one is in the returned list, none is in
\* neither or in both.
PartitionedWithoutLoss ==
    IsSome(processed) =>
        \A j \in 1..Len(diagnostics_in) :
            LET d == diagnostics_in[j]
                uri == [scheme |-> "file", path |-> Unwrap(d.span).file]
                inMap == /\ IsSome(d.span)
                         /\ uri \in DOMAIN Produced.map
                         /\ Unwrap(try_into_lsp_diagnostic(d)) \in Range(Produced.map[uri])
                inList == d \in Range(Produced.spanless)
            IN /\ IsSome(d.span) => inMap
               /\ ~IsSome(d.span) => inList
               /\ inMap # inList

\* C8: every diagnostic with a span whose file converts to a URI is appended
\* under that URI, in input order and also when the URI was not a key; every
\* diagnostic without a span is returned, in input order; a diagnostic with a
\* span whose file has no URI is in neither; none is in both.
PartitionedUpToConversion ==
    IsSome(processed) =>
        /\ DOMAIN Produced.map =
               DOMAIN publish_map_in \cup
               {UriOfDiagnostic(diagnostics_in[j]) : j \in {k \in 1..Len(diagnostics_in) : HasUri(diagnostics_in[k])}}
        /\ \A uri \in DOMAIN Produced.map : Produced.map[uri] = Before(uri) \o AddedUnder(uri)
        /\ Produced.spanless = SelectSeq(diagnostics_in, LAMBDA d : ~IsSome(d.span))

ProcessedEveryKind ==
    /\ IsSome(processed)
    /\ \E j \in 1..Len(diagnostics_in) :
           HasUri(diagnostics_in[j]) /\ UriOfDiagnostic(diagnostics_in[j]) \notin DOMAIN publish_map_in
    /\ \E j \in 1..Len(diagnostics_in) : ~IsSome(diagnostics_in[j].span)
    /\ \E j \in 1..Len(diagnostics_in) :
           IsSome(diagnostics_in[j].span) /\ ~HasUri(diagnostics_in[j])


-----------------------------------------------------------------------------
(* C11 .. C16: the Session *)

\* C11: a configuration set contains a path exactly when the path is a key of
\* the set's compiled file table or lies under one of the set's resolved
\* search paths.
ContainsKeyOrDescendant ==
    \A i \in 1..Len(configuration_sets) : \A f \in AllFiles :
        IsSome(find_file(<<configuration_sets[i]>>, f))
        <=> contains_file(configuration_sets[i].compilation_data,
                          as_slice_options(configuration_sets[i].slice_config), f)

\* what the compilation that built a set's artifact reported
ReportedBy(set) ==
    into_updated(compile_from_options(as_slice_options(set.slice_config),
                                      set.compilation_data.ast[2]).diagnostics)

\* C12: when compile_everything has joined its threads, every set was
\* compiled exactly once and the diagnostics returned are those of the sets
\* in the order of the session's list, whatever order the threads ended in.
PooledInListOrder ==
    [][(session_pc = "compiling" /\ session_pc' = "idle") =>
          /\ Len(finished) = Len(configuration_sets)
          /\ Range(finished) = 1..Len(configuration_sets)
          /\ returned' = Concat([i \in 1..Len(configuration_sets') |-> ReportedBy(configuration_sets'[i])])
      ]_vars

JoinedOutOfOrder ==
    /\ session_pc = "idle"
    /\ Len(configuration_sets) = 2
    /\ finished = <<2, 1>>
    /\ ReportedBy(configuration_sets[1]) # <<>>
    /\ ReportedBy(configuration_sets[1]) # ReportedBy(configuration_sets[2])
    /\ returned = ReportedBy(configuration_sets[1]) \o ReportedBy(configuration_sets[2])

Reconfigures == session_pc = "cleared" /\ session_pc' = "updated"

\* the sets a descriptor list stands for: one per descriptor, in order, or
\* the default set for an empty or missing list
SetsOf(configurations_value) ==
    LET D == IF configurations_value.t = "array" THEN configurations_value.v ELSE <<>> IN
    IF D = <<>>
    THEN <<[slice_config |-> [workspace_root_path |-> Root,
                              built_in_slice_path |-> Some(built_in_slice_path),
                              search_paths |-> <<>>],
            compilation_data |-> [ast |-> <<>>, files |-> {}]]>>
    ELSE [i \in 1..Len(D) |->
             [slice_config |-> [workspace_root_path |-> Root,
                                built_in_slice_path |->
                                    IF D[i].addWellKnownTypes.t = "bool" /\ ~D[i].addWellKnownTypes.v[1]
                                    THEN <<>> ELSE Some(built_in_slice_path),
                                search_paths |-> Some(parse_paths(D[i]))],
              compilation_data |-> [ast |-> <<>>, files |-> {}]]]

\* C13: a reconfiguration leaves exactly the sets built from its descriptor
\* list, one per descriptor in order (the default set for an empty list),
\* with no artifact of the previous configuration.
ReplacedWholesale ==
    [][Reconfigures =>
          \E c \in 1..Len(ConfigurationsInputs) :
              /\ last_parsed' = Some(parse_or_default(ConfigurationsInputs[c], Root, built_in_slice_path))
              /\ configuration_sets' = SetsOf(ConfigurationsInputs[c])
      ]_vars

ReplacedCompiledSets ==
    /\ session_pc = "updated"
    /\ Len(configuration_sets) = 2
    /\ \E k \in 1..Len(published) : published[k].op.step = "publish" /\ published[k].diagnostics # <<>>
    /\ \A i \in 1..Len(configuration_sets) : configuration_sets[i].compilation_data.files = {}

FallsBackToDefaults ==
    [][IsSome(workspace_uri) =>
          /\ \A h \in Handlers :
                 (pc[h] = "idle" /\ pc'[h] = "set_reference_uris" /\ ~IsSome(locals'[h].s))
                     => sources_uri' = workspace_uri
          /\ \A h \in Handlers :
                 (pc[h] = "set_reference_uris" /\ pc'[h] = "current_files" /\ ~IsSome(locals[h].r))
                     => reference_uris' \in {<<>>, Some(<<>>)}
          /\ (initialized_started /\ nevents' = nevents + 1) => pc' # pc
      ]_vars

-----------------------------------------------------------------------------
(* C17 .. C20: path resolution *)

ResolvedPaths == Unwrap(resolved_paths)
ResolvedReferences == Unwrap(resolved_references)

RootIsFilePath == IsSome(Url_to_file_path(resolve_in.root_uri))

BuiltInRequested == resolve_in.include_built_in_path /\ resolve_in.built_in_slice_path # <<>>

\* the declared paths, each joined under the workspace root
JoinedUnderRoot(paths) == [i \in 1..Len(paths) |-> Join(resolve_in.root_uri.path, paths[i])]

\* the declared paths that convert to a file URL, in their declared order
Convertible(paths) ==
    SelectSeq(paths, LAMBDA q : IsSome(Url_from_file_path(Join(resolve_in.root_uri.path, q))))

\* C17 as stated: for all inputs the resolved search-path list is non-empty.
ResolutionNeverEmpty ==
    /\ IsSome(resolved_paths) => ResolvedPaths # <<>>
    /\ IsSome(resolved_references) => ResolvedReferences # <<>>

\* C17: the resolved search-path list is non-empty for every workspace root
\* that is a file path, whatever the declared paths and the built-in path
\* are; for a root that is no file path it is empty.
ResolutionEmptyOnlyWithoutRoot ==
    /\ IsSome(resolved_paths) => (ResolvedPaths # <<>> <=> RootIsFilePath)
    /\ IsSome(resolved_references) => (ResolvedReferences # <<>> <=> RootIsFilePath)

ResolvedToRootAlone ==
    /\ IsSome(resolved_paths)
    /\ RootIsFilePath
    /\ resolve_in.paths = Some(<<>>)
    /\ ~BuiltInRequested
    /\ ResolvedPaths = <<Root>>

\* C18: a built-in path that is requested and non-empty is the last element
\* of the resolved list, after every declared path in declared order.
BuiltInIsLast ==
    /\ (IsSome(resolved_paths) /\ BuiltInRequested) =>
           /\ ResolvedPaths # <<>>
           /\ ResolvedPaths[Len(ResolvedPaths)] = resolve_in.built_in_slice_path
           /\ (IsSome(resolve_in.paths) /\ Unwrap(resolve_in.paths) # <<>>) =>
                  SubSeq(ResolvedPaths, 1, Len(ResolvedPaths) - 1) = JoinedUnderRoot(Unwrap(resolve_in.paths))
    /\ (IsSome(resolved_references) /\ resolve_in.built_in_slice_path # <<>>) =>
           /\ ResolvedReferences # <<>>
           /\ ResolvedReferences[Len(ResolvedReferences)] = resolve_in.built_in_slice_path

\* C19: a declared path that cannot be converted is skipped alone: the others
\* stay, in their declared order, and the workspace root stands in only when
\* none converts.
UnconvertibleSkippedAlone ==
    (IsSome(resolved_paths) /\ RootIsFilePath /\ IsSome(resolve_in.paths)) =>
        LET kept == Convertible(Unwrap(resolve_in.paths))
            n == Len(ResolvedPaths) - (IF BuiltInRequested THEN 1 ELSE 0)
        IN /\ n >= 1
           /\ SubSeq(ResolvedPaths, 1, n) = (IF kept = <<>> THEN <<Root>> ELSE JoinedUnderRoot(kept))

\* C20: the built-in path is in the resolved list if and only if the flag is
\* set and the path is non-empty; no empty string is ever in the list.
BuiltInIffRequested ==
    /\ IsSome(resolved_paths) =>
           /\ (Builtin \in Range(ResolvedPaths)) <=> BuiltInRequested
           /\ <<>> \notin Range(ResolvedPaths)
    /\ IsSome(resolved_references) => <<>> \notin Range(ResolvedReferences)

-----------------------------------------------------------------------------
(* Default project synthesis *)

-----------------------------------------------------------------------------
(* Per-field defaults of a project descriptor *)

\* the string entries of a JSON array, in the array's order
RECURSIVE StringsOf(_)
StringsOf(a) ==
    IF a = <<>> THEN <<>>
    ELSE IF Head(a).t = "string" THEN <<Head(a).v>> \o StringsOf(Tail(a))
    ELSE StringsOf(Tail(a))

\* the search paths and the built-in flag a descriptor stands for
ExpectedPaths == IF descriptor_in.paths.t = "array" THEN StringsOf(descriptor_in.paths.v) ELSE <<>>
ExpectedIncludeBuiltIn ==
    IF descriptor_in.addWellKnownTypes.t = "bool" THEN descriptor_in.addWellKnownTypes.v[1] ELSE TRUE

\* C22: a descriptor is parsed with per-field defaults: a missing or
\* non-boolean include-built-in field is read as true, a missing or non-array
\* search-path field as the empty list, and the non-string entries of the
\* search-path array are skipped while the string entries keep their order.
ParsedWithFieldDefaults ==
    /\ IsSome(parsed_descriptor) =>
           LET slice_config == Unwrap(parsed_descriptor).slice_config IN
           /\ slice_config.search_paths = Some(ExpectedPaths)
           /\ IsSome(slice_config.built_in_slice_path) <=> ExpectedIncludeBuiltIn
    /\ IsSome(parsed_config) =>
           /\ Unwrap(parsed_config).directories = ExpectedPaths
           /\ Unwrap(parsed_config).include_built_in = ExpectedIncludeBuiltIn

\* both parsers have read a descriptor whose flag is no boolean and whose
\* array holds a value that is no string between two strings
ParsedMixedDescriptor ==
    /\ IsSome(parsed_descriptor) /\ IsSome(parsed_config)
    /\ descriptor_in.addWellKnownTypes = JNumber
    /\ descriptor_in.paths = JArray(<<JString(Refs), JNumber, JString(Src)>>)
    /\ Unwrap(parsed_config).directories = <<Refs, Src>>

-----------------------------------------------------------------------------
(* C23 .. C28: position queries *)

QueryLocation == to_location(query_in.position)

\* start <= location <= end, row by row: an inner row matches whatever the
\* column, the first row from the start column on, the last row up to the end
\* column
WithinRows(location, span) ==
    \/ span.start[1] < location[1] /\ location[1] < span.end[1]
    \/ /\ location[1] = span.start[1] /\ location[1] < span.end[1]
       /\ span.start[2] <= location[2]
    \/ /\ span.start[1] < location[1] /\ location[1] = span.end[1]
       /\ location[2] <= span.end[2]
    \/ /\ location[1] = span.start[1] /\ location[1] = span.end[1]
       /\ span.start[2] <= location[2] /\ location[2] <= span.end[2]

\* C23: a query location matches a node's span exactly when
\* start <= location <= end, (row, col) compared lexicographically and
\* inclusive at both ends, under the rule of every visitor.
MatchesLexicographically ==
    IsSome(matched) =>
        /\ Unwrap(matched).is_within <=> WithinRows(QueryLocation, query_in.span)
        /\ Unwrap(matched).is_location_in_span <=> WithinRows(QueryLocation, query_in.span)


\* the document of the query is a.slice and the compilation state holds it
QueriedFileA ==
    /\ Url_to_file_path(query_in.uri) = Some(FileA)
    /\ FileA \in shared_state.compilation_state.files

\* the type references of a.slice that lie in a struct or a class, and the
\* enum with its underlying type
NestedReferences ==
    {i \in 1..Len(NodesOfA) :
        /\ NodesOfA[i].kind = "type_ref"
        /\ \E name \in {"S", "C"} : is_within(NodesOfA[i].type_ref.span.start, Entity(name).span)}
EnumNodes == {i \in 1..Len(NodesOfA) : NodesOfA[i].kind = "enum"}
Int32Reference == SpanOf(<<2, 4>>, <<2, 5>>)

\* C24: when the query location lies inside a container definition and a
\* type reference nested in it, the result is the one for the nested
\* reference, in whichever order container and reference are visited; hover
\* on the int32 reference inside struct S returns the int32 description.
NestedReferenceWins ==
    /\ (IsSome(hover_out) /\ QueriedFileA) =>
           /\ ~Unwrap(hover_out).aborted
           /\ \A i \in NestedReferences :
                  is_within(QueryLocation, NodesOfA[i].type_ref.span) =>
                      Unwrap(hover_out).value =
                          HoverVisitor_visit_type_ref(HoverVisitor_new(QueryLocation),
                                                      NodesOfA[i].type_ref).found_message
           /\ \A i \in EnumNodes :
                  is_within(QueryLocation, Unwrap(NodesOfA[i].underlying).span) =>
                      Unwrap(hover_out).value = Some("An 8-bit unsigned integer type.")
           /\ is_within(QueryLocation, Int32Reference) =>
                  Unwrap(hover_out).value = Some("A 32-bit signed integer type.")
    /\ (IsSome(jump_out) /\ QueriedFileA) =>
           /\ ~Unwrap(jump_out).aborted
           /\ \A i \in NestedReferences :
                  is_within(QueryLocation, NodesOfA[i].type_ref.span) =>
                      LET found == JumpVisitor_visit_type_ref(JumpVisitor_new(QueryLocation),
                                                              NodesOfA[i].type_ref).found_span
                      IN IF IsSome(found)
                         THEN /\ IsSome(Unwrap(jump_out).value)
                              /\ Unwrap(Unwrap(jump_out).value).range = span_to_range(Unwrap(found))
                         ELSE Unwrap(jump_out).value = <<>>

\* hover on the int32 reference of struct S, the struct visited before its
\* fields, has answered with the description of int32
HoveredInt32InStruct ==
    /\ IsSome(hover_out) /\ QueriedFileA
    /\ query_in.order = "forward"
    /\ is_within(QueryLocation, Int32Reference)
    /\ is_within(QueryLocation, Entity("S").span)
    /\ Unwrap(hover_out).value = Some("A 32-bit signed integer type.")


TypeReferences == {i \in 1..Len(NodesOfA) : NodesOfA[i].kind = "type_ref"}
UserDefinitionKinds == {"Struct", "Class", "Interface", "Enum", "CustomType"}

\* C25: go-to-definition on a matching type reference returns a definition
\* span for every kind of referenced user definition (struct, class,
\* interface, enum, custom type), and no result only for a reference to a
\* type that is no such definition.
DefinitionForEveryKind ==
    (IsSome(jump_out) /\ QueriedFileA) =>
        \A i \in TypeReferences :
            LET typeref == NodesOfA[i].type_ref IN
            (is_within(QueryLocation, typeref.span) /\ IsSome(typeref.definition)) =>
                (IsSome(Unwrap(jump_out).value)
                    <=> Unwrap(typeref.definition).kind \in UserDefinitionKinds)


\* the references of a.slice, each with its span and the entity it names:
\* type references to user definitions, base and exception-specification
\* references, and the links of the doc comments
TypeRefTargets ==
    {[span |-> NodesOfA[i].type_ref.span, name |-> Unwrap(NodesOfA[i].type_ref.definition).name] :
        i \in {j \in TypeReferences :
                  /\ IsSome(NodesOfA[j].type_ref.definition)
                  /\ Unwrap(NodesOfA[j].type_ref.definition).kind \in UserDefinitionKinds}}
BasesOf(node) ==
    CASE node.kind \in {"class", "exception"} -> node.base
      [] node.kind = "interface" -> node.bases
      [] node.kind = "operation" -> node.exception_specification
      [] OTHER -> <<>>
BaseTargets ==
    UNION {{[span |-> r.span, name |-> Unwrap(r.definition).name] : r \in Range(BasesOf(NodesOfA[i]))} :
              i \in 1..Len(NodesOfA)}
LinkTargets ==
    {[span |-> SpanOf(<<1, 1>>, <<1, 2>>), name |-> "E"], [span |-> SpanOf(<<6, 3>>, <<6, 3>>), name |-> "X"]}

\* C26: for every matched type reference, base-class, base-interface or
\* exception-specification reference, and documentation link, the
\* definition result is the span of the referenced entity's identifier, not
\* the span of the whole referenced definition.
IdentifierSpanReturned ==
    /\ (IsSome(jump_out) /\ QueriedFileA) =>
           \A r \in TypeRefTargets \cup BaseTargets \cup LinkTargets :
               (is_within(QueryLocation, r.span) /\ IsSome(Unwrap(jump_out).value)) =>
                   Unwrap(Unwrap(jump_out).value).range = span_to_range(Entity(r.name).identifier)
    /\ IsSome(lsp_out) =>
           \A r \in TypeRefTargets \cup BaseTargets :
               (is_within(QueryLocation, r.span) /\ IsSome(Unwrap(lsp_out).found_span)) =>
                   Unwrap(Unwrap(lsp_out).found_span) = Entity(r.name).identifier


\* the location lies in no reference of a.slice: no type reference, no
\* underlying type, no base or exception specification, no link
InNoReference ==
    /\ \A i \in TypeReferences : ~is_within(QueryLocation, NodesOfA[i].type_ref.span)
    /\ \A i \in EnumNodes : ~is_within(QueryLocation, Unwrap(NodesOfA[i].underlying).span)
    /\ \A r \in BaseTargets \cup LinkTargets : ~is_within(QueryLocation, r.span)
    /\ ~is_within(QueryLocation, SpanOf(<<1, 4>>, <<1, 5>>))

\* C27: a hover or go-to-definition request at a location with no matching
\* node, or for a document that no compiled file table holds, completes with
\* "no result": it returns no error and the handler does not abort.
QueryMissIsNoResult ==
    /\ (IsSome(hover_out) /\ (~QueriedFileA \/ InNoReference)) =>
           Unwrap(hover_out) = Completed(<<>>)
    /\ (IsSome(jump_out) /\ (~QueriedFileA \/ InNoReference)) =>
           Unwrap(jump_out) = Completed(<<>>)


\* C28: a zero-based editor position (line, character) is queried as the
\* one-based location (line + 1, character + 1); a published range and a
\* related-location range are the one-based span with 1 subtracted from each
\* of its four coordinates; a position converted to a location and back is
\* the same position.
PositionsConvertedConsistently ==
    /\ Position(to_location(query_in.position)) = query_in.position
    /\ (IsSome(hover_out) /\ QueriedFileA) =>
           (Unwrap(hover_out).value = Some("A 32-bit signed integer type.")
               <=> (query_in.position[1] + 1 = 2 /\ query_in.position[2] + 1 \in 4..5))
    /\ (IsSome(jump_out) /\ QueriedFileA /\ query_in.position = <<2, 0>>) =>
           Unwrap(jump_out).value =
               Some([uri |-> Unwrap(Url_from_file_path(FileA)),
                     range |-> [start |-> <<3, 1>>, end |-> <<3, 1>>]])
    /\ IsSome(converted) =>
           LET span == query_in.span
               range == [start |-> <<span.start[1] - 1, span.start[2] - 1>>,
                         end |-> <<span.end[1] - 1, span.end[2] - 1>>]
           IN /\ Unwrap(Unwrap(converted).diagnostic).range = range
              /\ Unwrap(Unwrap(converted).related_information).location.range = range

\* go-to-definition at line 2, character 0 (the reference at row 3, col 1)
\* has answered with the zero-based range of the identifier at (4,2)-(4,2)
JumpedFromZeroBasedPosition ==
    /\ IsSome(jump_out) /\ QueriedFileA
    /\ query_in.position = <<2, 0>>
    /\ IsSome(Unwrap(jump_out).value)
    /\ Unwrap(Unwrap(jump_out).value).range = [start |-> <<3, 1>>, end |-> <<3, 1>>]

-----------------------------------------------------------------------------
(* C29, C30: recompilations and the shared compilation state *)

\* C29: two recompilations never interleave: when a file-change handler
\* stores its compilation, no compilation that started after its own has
\* been stored already, so that an older result is never stored over a
\* newer one.  (A handler's event number is taken when it starts, and a
\* file-change handler compiles when it starts.)
NewestCompilationStoredLast ==
    [][\A h \in Handlers :
        (pc[h] = "store_and_publish_uri" /\ pc'[h] = "idle") =>
            \A i \in 1..Len(published) :
                ~(published[i].op.step = "publish" /\ published[i].op.event > locals[h].event)]_vars


\* what the file system may hold when a compilation runs
Worlds == SUBSET AllFiles

\* the AST and the file table of one invocation of the compiler
OneCompilation(options, isBroken) ==
    [ast |-> compile_from_options(options, isBroken).ast,
     files |-> compile_from_options(options, isBroken).files]

\* C30: in every state the file table and the AST cached for a
\* configuration set come from one and the same invocation of the compiler,
\* made with the set's own options (or they are the empty pair the set was
\* created with).
ArtifactFromOneCompilation ==
    \A i \in 1..Len(configuration_sets) :
        LET set == configuration_sets[i] IN
        \/ set.compilation_data = CompilationData_default
        \/ \E b \in Worlds :
               set.compilation_data = OneCompilation(as_slice_options(set.slice_config), b)

\* two sets hold artifacts of two compilations that saw different files
ArtifactsOfTwoCompilations ==
    \E i, j \in 1..Len(configuration_sets) :
        /\ configuration_sets[i].compilation_data # CompilationData_default
        /\ configuration_sets[j].compilation_data # CompilationData_default
        /\ configuration_sets[i].compilation_data.ast[2] # configuration_sets[j].compilation_data.ast[2]

\* the same of the Backend's shared state (specification SpecBackend): the
\* stored AST, file table and options belong to one compilation
SharedStateFromOneCompilation ==
    \/ shared_state = SharedState_new
    \/ \E b \in Worlds :
           [ast |-> shared_state.compilation_state.ast, files |-> shared_state.compilation_state.files]
               = OneCompilation(shared_state.compilation_options, b)


-----------------------------------------------------------------------------
(* C31 .. C38: frame conditions, configuration versions, locks *)

\* handler h is at the step that stores a compilation and publishes it
Storing(h) ==
    /\ pc[h] \in {"initialized_compile", "store_and_publish", "store_and_publish_uri"}
    /\ pc'[h] = "idle"

\* the compilation that step stores
Compiled(h) ==
    IF pc[h] = "initialized_compile" THEN compile_slice_files.state ELSE locals[h].updated_state

Recompiles == configuration_sets' # configuration_sets /\ last_parsed' = last_parsed

\* a thread of compile_everything ends in this step
ThreadEnds == session_pc = "compiling" /\ Len(finished') = Len(finished) + 1

\* C32: a recompilation leaves the search paths of every set unchanged, and
\* the thread compile_everything spawns for one set leaves the artifact of
\* every other set unchanged.
ThreadWritesOwnArtifact ==
    [][/\ Recompiles =>
              /\ Len(configuration_sets') = Len(configuration_sets)
              /\ \A j \in 1..Len(configuration_sets) :
                     configuration_sets'[j].slice_config = configuration_sets[j].slice_config
       /\ ThreadEnds =>
              \A j \in 1..Len(configuration_sets) :
                  j # finished'[Len(finished')] => configuration_sets'[j] = configuration_sets[j]]_vars

\* one thread has replaced the artifact of its set while another set still
\* holds the artifact of an earlier compilation, which saw other files
ThreadReplacedOneOfTwo ==
    /\ session_pc = "compiling"
    /\ Len(finished) = 1
    /\ \E j \in 1..Len(configuration_sets) :
           /\ j # finished[1]
           /\ configuration_sets[j].compilation_data # CompilationData_default
           /\ configuration_sets[j].compilation_data.ast[2]
                  # configuration_sets[finished[1]].compilation_data.ast[2]


\* C33: the workspace root and the built-in path change only in the step
\* that handles initialize; every later handler leaves them unchanged.
RootWrittenOnlyByInitialize ==
    [][/\ (root_path' # root_path \/ built_in_slice_path' # built_in_slice_path)
              => (~session_ready /\ session_ready')
       /\ workspace_uri' # workspace_uri => (~backend_ready /\ backend_ready')]_vars

\* a configuration change and a file change have been handled after
\* initialize, and the root and the built-in path are those of initialize
RootKeptAcrossHandlers ==
    /\ HandlerIdle
    /\ root_path = Some(Root)
    /\ built_in_slice_path # <<>>
    /\ \E i, j \in 1..Len(published) :
           /\ published[i].op.step = "clear"
           /\ published[j].op.step = "publish"
           /\ published[j].op.event > published[i].op.event


Compiles(h) ==
    \/ pc[h] = "idle" /\ pc'[h] = "store_and_publish_uri"
    \/ pc[h] = "recompile" /\ pc'[h] = "clear_removed"
    \/ pc[h] = "initialized_compile" /\ pc'[h] = "idle"

\* the configuration change of handler g has stored a new sources directory
\* and not yet the new reference directories that came with it
HalfUpdated(g) ==
    /\ pc[g] = "set_reference_uris"
    /\ IsSome(locals[g].s) /\ locals[g].s # locals[g].replaced
    /\ IsSome(locals[g].r) /\ locals[g].r # reference_uris

\* C35: no compilation reads the sources directory of one version of the
\* configuration together with the reference directories of another: none
\* runs while a configuration change has stored the first and not the second.
CompiledFromOneVersion ==
    [][\A h \in Handlers : Compiles(h) => \A g \in Handlers : ~HalfUpdated(g)]_vars


\* C36: no state of the lock protocol is a deadlock: while a handler has
\* started and not completed, some such handler can take its next step, and
\* once every started handler has completed no lock is held or waited for.
NoLockDeadlock ==
    /\ (\E t \in LockTasks : Started(t) /\ ~HandlerDone(t)) => \E t \in LockTasks : Runnable(t)
    /\ (\A t \in LockTasks : Started(t) => HandlerDone(t)) => locks = [name \in LockNames |-> NoLock]

\* a configuration change holds two read guards of the root path while
\* another handler holds the configuration sets and reads the server
\* configuration
RecursiveReadBesideCompilation ==
    \E t, u \in LockTasks :
        /\ t # u
        /\ locks["root_path"].readers[t] = 2
        /\ locks["configuration_sets"].writer = u
        /\ locks["server_config"].readers[u] = 1


\* the options of config.rs's SliceConfig are those its fields resolve to
ReferenceOptionsCurrent ==
    Config_as_slice_options(reference_config).references = resolve_reference_paths(reference_config)

\* the options of slice_config.rs's SliceConfig are those its fields resolve to
PathsOptionsCurrent ==
    PathsConfig_as_slice_options(paths_config).options.references
        = SliceConfig_resolve_paths([paths |-> paths_config.paths,
                                     include_built_in_path |-> paths_config.include_built_in_path],
                                    TheServerConfig)

\* C37: after any sequence of calls of the setters, as_slice_options returns
\* exactly the search paths that resolving the current fields gives.
OptionsNeverStale == ReferenceOptionsCurrent /\ PathsOptionsCurrent


\* one traversal, node by node: the result a visitor holds before a node and
\* the result it holds after it
RECURSIVE JumpResultKept(_, _)
JumpResultKept(self, nodes) ==
    IF nodes = <<>> THEN TRUE
    ELSE LET visited == JumpVisitor_visit(self, Head(nodes)) IN
         /\ IsSome(self.found_span) => IsSome(visited.found_span)
         /\ JumpResultKept(visited, Tail(nodes))

RECURSIVE HoverResultKept(_, _)
HoverResultKept(self, nodes) ==
    IF nodes = <<>> THEN TRUE
    ELSE LET visited == HoverVisitor_visit(self, Head(nodes)) IN
         /\ IsSome(self.found_message) => IsSome(visited.found_message)
         /\ HoverResultKept(visited, Tail(nodes))

RECURSIVE LspResultKept(_, _)
LspResultKept(self, nodes) ==
    IF nodes = <<>> THEN TRUE
    ELSE LET visited == LspVisitor_visit(self, Head(nodes)) IN
         /\ IsSome(self.found_span) => IsSome(visited.found_span)
         /\ LspResultKept(visited, Tail(nodes))

\* the nodes of a.slice that, visited by a fresh visitor, set a result
JumpMatches == {i \in 1..Len(NodesOfA) :
    IsSome(JumpVisitor_visit(JumpVisitor_new(QueryLocation), NodesOfA[i]).found_span)}
HoverMatches == {i \in 1..Len(NodesOfA) :
    IsSome(HoverVisitor_visit(HoverVisitor_new(QueryLocation), NodesOfA[i]).found_message)}
LspMatches == {i \in 1..Len(NodesOfA) :
    IsSome(LspVisitor_visit(LspVisitor_new(QueryLocation), NodesOfA[i]).found_span)}

=============================================================================
